---- MODULE Spec2Model ----
(***************************************************************************)
(* State-machine model of the search engine (src/search.py), of the        *)
(* sliding puzzle it is run on (src/slidingpuzzle.py), of the driver that  *)
(* runs it (src/uninformed_search.py) and of the Problem and Heuristic     *)
(* collaborators a caller hands to the engine.                             *)
(*                                                                         *)
(* One top-level strategy call runs at a time.  A call is an entry action  *)
(* (counters reset, fringe seeded), then one action per iteration of the   *)
(* strategy's while loop, the last of which returns.                       *)
(***************************************************************************)
EXTENDS Integers, Sequences, FiniteSets, TLC

VARIABLES
    input,          \* the Problem the caller constructed (fixed during a run)
    problem,        \* the Problem object's mutable fields
    pc,             \* where the engine is: "idle" or inside a strategy's loop
    fringe,         \* local fringe of the running search function
    visited,        \* local dict visited (its keys)
    inFringe,       \* local dict inFringe (key -> bool)
    numExpanded,    \* local numExpanded of the running search function
    dls,            \* depthLimitedSearch's parameters (maxDepth, reset)
    ids,            \* iterativeDeepening's locals (state, depth, maxDepth, numExpanded)
    heuristic,      \* the heuristic object handed to aStarSearch
    maxMemoryUse,   \* module global maxMemoryUse
    totalStates,    \* module global totalStates
    ret,            \* what the last completed top-level call returned
    hist            \* observer: what the running call has done so far

vars == <<input, problem, pc, fringe, visited, inFringe, numExpanded, dls, ids,
          heuristic, maxMemoryUse, totalStates, ret, hist>>

-----------------------------------------------------------------------------
(* Bounds of the model *)

\* number of states of a graph problem (state keys 0 .. NumNodes-1)
NumNodes == 5

\* largest maxDepth a caller passes to depthLimitedSearch / iterativeDeepening
MaxDepthArg == 4

\* float("inf"), the cost of the no-solution result
Infinity == 1000000

Nodes == 0 .. (NumNodes - 1)

Max(a, b) == IF a >= b THEN a ELSE b

Min(a, b) == IF a <= b THEN a ELSE b

Last(s) == s[Len(s)]

Front(s) == SubSeq(s, 1, Len(s) - 1)

\* Python's lexicographic < on two lists of integers (also on two strings,
\* read as lists of character codes)
RECURSIVE ListLess(_, _)
ListLess(a, b) ==
    IF b = <<>> THEN FALSE
    ELSE IF a = <<>> THEN TRUE
    ELSE IF Head(a) # Head(b) THEN Head(a) < Head(b)
    ELSE ListLess(Tail(a), Tail(b))

\* Python's lexicographic < on two lists of lists of integers
RECURSIVE ListListLess(_, _)
ListListLess(a, b) ==
    IF b = <<>> THEN FALSE
    ELSE IF a = <<>> THEN TRUE
    ELSE IF Head(a) # Head(b) THEN ListLess(Head(a), Head(b))
    ELSE ListListLess(Tail(a), Tail(b))

-----------------------------------------------------------------------------
(* SlidingPuzzle (src/slidingpuzzle.py).  A puzzle object is the record     *)
(* [board, pos, numMisplaced]; its dimensions are input.numR, input.numC.  *)
(* Rows, columns and pos are 0-based as in the code; board[r+1][c+1] is    *)
(* the code's __board[r][c].  A state string is the sequence of its        *)
(* tokens: a tile number, or one of the separators below.                  *)

\* the " " between two tiles of a row
SP == -1

\* the "\n" that ends a row
NL == -2

\* self.__blank
Blank == 0

Up == <<-1, 0>>

Down == <<1, 0>>

Left == <<0, -1>>

Right == <<0, 1>>

\* the board the constructor builds: tile r*numC + c at (r, c)
SolvedBoard(numR, numC) ==
    [r \in 1 .. numR |-> [c \in 1 .. numC |-> (r - 1) * numC + (c - 1)]]

RECURSIVE RowStr(_)
RowStr(row) ==
    IF Len(row) <= 1 THEN row
    ELSE RowStr(Front(row)) \o <<SP, Last(row)>>

\* SlidingPuzzle.getState applied to a board
RECURSIVE BoardStr(_)
BoardStr(board) ==
    IF board = <<>> THEN <<>>
    ELSE BoardStr(Front(board)) \o RowStr(Last(board)) \o <<NL>>

getState(p) == BoardStr(p.board)

\* str.split(sep): the pieces between the separators (the last may be empty)
RECURSIVE SplitOn(_, _)
SplitOn(s, sep) ==
    IF \A i \in 1 .. Len(s) : s[i] # sep THEN <<s>>
    ELSE LET k == CHOOSE i \in 1 .. Len(s) :
                      s[i] = sep /\ \A j \in 1 .. (i - 1) : s[j] # sep
         IN  <<SubSeq(s, 1, k - 1)>> \o SplitOn(SubSeq(s, k + 1, Len(s)), sep)

\* str.split(): the tokens between runs of blanks
Fields(s) == SelectSeq(s, LAMBDA t : t # SP)

\* state.split("\n")[:-1], each row split into its tiles
ParseRows(state) ==
    LET rows == Front(SplitOn(state, NL))
    IN  [i \in 1 .. Len(rows) |-> Fields(rows[i])]

Flatten(rows) ==
    LET RECURSIVE F(_)
        F(rs) == IF rs = <<>> THEN <<>> ELSE Head(rs) \o F(Tail(rs))
    IN  F(rows)

\* setState raises no ValueError on this state string
SetStateOK(p, state, numR, numC) ==
    LET rows == ParseRows(state)
        flat == Flatten(rows)
    IN  /\ Len(rows) = numR
        /\ \A i \in 1 .. Len(rows) : Len(rows[i]) = Len(p.board[i])
        /\ \A k \in 1 .. Len(flat) : flat[k] >= 0 /\ flat[k] < numR * numC
        /\ \A k, l \in 1 .. Len(flat) : k # l => flat[k] # flat[l]

\* SlidingPuzzle.setState on a string it accepts
setState(p, state, numR, numC) ==
    LET rows == ParseRows(state)
        flat == Flatten(rows)
        cells == {<<i, j>> \in (1 .. numR) \X (1 .. numC) : rows[i][j] = Blank}
        at == CHOOSE c \in cells : TRUE
    IN  [board |-> rows,
         pos |-> <<at[1] - 1, at[2] - 1>>,
         numMisplaced |-> Cardinality({k \in 1 .. Len(flat) : flat[k] # k - 1})]

\* variant (a property must tell it from the code): legalMoves trying Left and Right before Up and Down
legalMovesSideways(p, numR, numC) ==
    (IF p.pos[2] > 0 THEN <<Left>> ELSE <<>>)
    \o (IF p.pos[2] < numC - 1 THEN <<Right>> ELSE <<>>)
    \o (IF p.pos[1] > 0 THEN <<Up>> ELSE <<>>)
    \o (IF p.pos[1] < numR - 1 THEN <<Down>> ELSE <<>>)

\* SlidingPuzzle.legalMoves
legalMoves(p, numR, numC) ==
    (IF p.pos[1] > 0 THEN <<Up>> ELSE <<>>)
    \o (IF p.pos[1] < numR - 1 THEN <<Down>> ELSE <<>>)
    \o (IF p.pos[2] > 0 THEN <<Left>> ELSE <<>>)
    \o (IF p.pos[2] < numC - 1 THEN <<Right>> ELSE <<>>)

\* variant (a property must tell it from the code): move without the test
\* of line 133 for an unrecognized direction
MoveOKOnBoard(p, dir, numR, numC) ==
    /\ p.pos[1] + dir[1] >= 0 /\ p.pos[1] + dir[1] < numR
    /\ p.pos[2] + dir[2] >= 0 /\ p.pos[2] + dir[2] < numC

\* move raises no ValueError
MoveOK(p, dir, numR, numC) ==
    /\ dir \in {Up, Left, Right, Down}
    /\ p.pos[1] + dir[1] >= 0 /\ p.pos[1] + dir[1] < numR
    /\ p.pos[2] + dir[2] >= 0 /\ p.pos[2] + dir[2] < numC

\* variant (a property must tell it from the code): move without the two
\* adjustments of numMisplaced for the blank (lines 141-144)
moveCountingTile(p, dir, numR, numC) ==
    LET newPos == <<p.pos[1] + dir[1], p.pos[2] + dir[2]>>
        tile == p.board[newPos[1] + 1][newPos[2] + 1]
        m3 == p.numMisplaced + (IF tile = newPos[1] * numC + newPos[2] THEN 1 ELSE 0)
        m4 == m3 - (IF tile = p.pos[1] * numC + p.pos[2] THEN 1 ELSE 0)
        b1 == [p.board EXCEPT ![p.pos[1] + 1][p.pos[2] + 1] = tile]
        b2 == [b1 EXCEPT ![newPos[1] + 1][newPos[2] + 1] = Blank]
    IN  [board |-> b2, pos |-> newPos, numMisplaced |-> m4]

\* SlidingPuzzle.move on a direction it accepts (it returns cost 1)
move(p, dir, numR, numC) ==
    LET newPos == <<p.pos[1] + dir[1], p.pos[2] + dir[2]>>
        tile == p.board[newPos[1] + 1][newPos[2] + 1]
        blankPos == <<Blank \div numC, Blank % numC>>
        m1 == p.numMisplaced + (IF p.pos = blankPos THEN 1 ELSE 0)
        m2 == m1 - (IF newPos = blankPos THEN 1 ELSE 0)
        m3 == m2 + (IF tile = newPos[1] * numC + newPos[2] THEN 1 ELSE 0)
        m4 == m3 - (IF tile = p.pos[1] * numC + p.pos[2] THEN 1 ELSE 0)
        b1 == [p.board EXCEPT ![p.pos[1] + 1][p.pos[2] + 1] = tile]
        b2 == [b1 EXCEPT ![newPos[1] + 1][newPos[2] + 1] = Blank]
    IN  [board |-> b2, pos |-> newPos, numMisplaced |-> m4]

MoveCost == 1

\* SlidingPuzzle.isSolved
isSolved(p) == p.numMisplaced = 0

\* SlidingPuzzle.getSuccessors: the list it returns
getSuccessors(p, state, numR, numC) ==
    LET q == setState(p, state, numR, numC)
        moves == legalMoves(q, numR, numC)
    IN  [i \in 1 .. Len(moves) |->
            LET m == move(q, moves[i], numR, numC)
            IN  [state |-> getState(m), action |-> moves[i],
                 cost |-> MoveCost, goal |-> isSolved(m)]]

\* variant (a property must tell it from the code): getSuccessors without its
\* last statement setState(currentState)
AfterGetSuccessorsAtState(p, state, numR, numC) ==
    setState(p, state, numR, numC)

\* SlidingPuzzle.getSuccessors: the object it leaves behind
\* (setState(currentState) is its last statement)
AfterGetSuccessors(p, state, numR, numC) ==
    setState(setState(p, state, numR, numC), getState(p), numR, numC)

-----------------------------------------------------------------------------
(* Graph problems: the caller-supplied Problem of spec section 6, as the    *)
(* engine uses it (getState, setState, isSolved, getSuccessors).  State    *)
(* keys are the nodes 0 .. NumNodes-1, the start state is node 0, an       *)
(* action is named by the node it leads to.  input.succ[n] is the ordered  *)
(* successor list of n, input.goals the goal states, input.cost the step   *)
(* costs by kind of edge.  The object's only field is cur.                 *)

\* step cost of the edge n -> t under a cost scheme
CostOf(cost, n, t) ==
    IF t = n + 1 THEN cost.step
    ELSE IF t = n + 2 THEN cost.jump
    ELSE cost.back

\* step cost of the edge n -> t of the problem
EdgeCost(n, t) == CostOf(input.cost, n, t)

GraphSuccessors(n) ==
    [i \in 1 .. Len(input.succ[n]) |->
        LET t == input.succ[n][i]
        IN  [state |-> t, action |-> t, cost |-> EdgeCost(n, t),
             goal |-> t \in input.goals]]

\* problem.getState()
ProblemGetState(p) ==
    IF input.kind = "puzzle" THEN getState(p) ELSE p.cur

\* problem.setState(state)
ProblemSetState(p, state) ==
    IF input.kind = "puzzle" THEN setState(p, state, input.numR, input.numC)
    ELSE [p EXCEPT !.cur = state]

\* problem.isSolved()
ProblemIsSolved(p) ==
    IF input.kind = "puzzle" THEN isSolved(p) ELSE p.cur \in input.goals

\* problem.getSuccessors(state): the list returned
ProblemGetSuccessors(p, state) ==
    IF input.kind = "puzzle" THEN getSuccessors(p, state, input.numR, input.numC)
    ELSE GraphSuccessors(state)

\* problem.getSuccessors(state): the problem object afterwards
ProblemAfterGetSuccessors(p, state) ==
    IF input.kind = "puzzle" THEN AfterGetSuccessors(p, state, input.numR, input.numC)
    ELSE p

\* heuristic.eval(state)
HeuristicEval(h, state) ==
    IF h.kind = "zero" THEN 0 ELSE h.table[state]

-----------------------------------------------------------------------------
(* PriorityQueue (src/search.py) over Python's heapq.  The heap is the     *)
(* list __heap; position k of the code is index k+1 here.  An entry is    *)
(* the pair (priority, item) as the record [priority, item]; the item is  *)
(* a fringe node (state, path, cost, goal).                                *)

\* < on two state keys (Python ints, or state strings)
KeyLess(a, b) ==
    IF input.kind = "puzzle" THEN ListLess(a, b) ELSE a < b

\* < on two paths (Python lists of actions)
PathLess(a, b) ==
    IF input.kind = "puzzle" THEN ListListLess(a, b) ELSE ListLess(a, b)

\* Python's < on two node tuples (state, path, cost, goal)
ItemLess(x, y) ==
    IF x.state # y.state THEN KeyLess(x.state, y.state)
    ELSE IF x.path # y.path THEN PathLess(x.path, y.path)
    ELSE IF x.cost # y.cost THEN x.cost < y.cost
    ELSE (~x.goal) /\ y.goal

\* Python's < on two heap entries (priority, item)
EntryLess(e, f) ==
    IF e.priority # f.priority THEN e.priority < f.priority
    ELSE ItemLess(e.item, f.item)

\* heapq._siftdown(heap, startpos, pos), newitem being the entry to place
RECURSIVE siftdown(_, _, _, _)
siftdown(heap, startpos, pos, newitem) ==
    IF pos > startpos /\ EntryLess(newitem, heap[((pos - 1) \div 2) + 1])
    THEN siftdown([heap EXCEPT ![pos + 1] = heap[((pos - 1) \div 2) + 1]],
                  startpos, (pos - 1) \div 2, newitem)
    ELSE [heap EXCEPT ![pos + 1] = newitem]

\* heapq.heappush
heappush(heap, entry) ==
    siftdown(Append(heap, entry), 0, Len(heap), entry)

\* the while loop of heapq._siftup: <<heap, pos>> when it ends
RECURSIVE siftupLoop(_, _)
siftupLoop(heap, pos) ==
    LET childpos == 2 * pos + 1
        rightpos == childpos + 1
        c == IF rightpos < Len(heap)
                /\ ~EntryLess(heap[childpos + 1], heap[rightpos + 1])
             THEN rightpos ELSE childpos
    IN  IF childpos < Len(heap)
        THEN siftupLoop([heap EXCEPT ![pos + 1] = heap[c + 1]], c)
        ELSE <<heap, pos>>

\* heapq._siftup(heap, pos)
siftup(heap, pos) ==
    LET r == siftupLoop(heap, pos)
    IN  siftdown(r[1], pos, r[2], heap[pos + 1])

\* heapq.heappop on a non-empty heap: the heap afterwards
heappopRest(heap) ==
    IF Len(heap) = 1 THEN <<>>
    ELSE siftup([Front(heap) EXCEPT ![1] = Last(heap)], 0)

\* heapq.heappop on a non-empty heap: the entry returned
heappopItem(heap) == heap[1]

\* PriorityQueue.push
push(heap, item, priority) ==
    heappush(heap, [priority |-> priority, item |-> item])

\* PriorityQueue.isEmpty
isEmpty(heap) == Len(heap) = 0

\* PriorityQueue.getSize
getSize(heap) == Len(heap)

\* State keys standing for objects of a class that defines no __lt__: < on two
\* different objects, one of which is such an object, raises TypeError
OpaqueKeys == {-1, -2}

\* Python's < on the entries e and f returns a value.  Tuple comparison looks
\* for the first position where the two differ (== with the identity
\* shortcut) and applies < there: equal priorities hand the comparison to
\* the items, and different state keys to the keys.
Comparable(e, f) ==
    \/ e.priority # f.priority
    \/ e.item.state = f.item.state
    \/ e.item.state \notin OpaqueKeys /\ f.item.state \notin OpaqueKeys

\* heapq._siftdown with the comparison that can raise.  ok: no TypeError;
\* heap: the list it leaves in the C implementation (_heapq swaps in place,
\* newitem is at pos when the comparison raises); alt: the list the pure
\* Python implementation leaves (newitem is written only at the end).
RECURSIVE siftdownRun(_, _, _, _)
siftdownRun(heap, startpos, pos, newitem) ==
    LET parentpos == (pos - 1) \div 2
        parent == heap[parentpos + 1]
        placed == [heap EXCEPT ![pos + 1] = newitem]
    IN  IF pos > startpos
        THEN IF ~Comparable(newitem, parent)
             THEN [ok |-> FALSE, heap |-> placed, alt |-> heap]
             ELSE IF EntryLess(newitem, parent)
             THEN siftdownRun([heap EXCEPT ![pos + 1] = parent],
                              startpos, parentpos, newitem)
             ELSE [ok |-> TRUE, heap |-> placed, alt |-> placed]
        ELSE [ok |-> TRUE, heap |-> placed, alt |-> placed]

\* heapq.heappush with the comparison that can raise
heappushRun(heap, entry) ==
    siftdownRun(Append(heap, entry), 0, Len(heap), entry)

\* heapq._siftup with the comparison that can raise: the loop that moves the
\* smaller child up, then _siftdown of newitem from the leaf it reached
RECURSIVE siftupRun(_, _, _, _)
siftupRun(heap, startpos, pos, newitem) ==
    LET childpos == 2 * pos + 1
        rightpos == childpos + 1
        placed == [heap EXCEPT ![pos + 1] = newitem]
    IN  IF childpos < Len(heap)
        THEN IF rightpos < Len(heap)
                /\ ~Comparable(heap[childpos + 1], heap[rightpos + 1])
             THEN [ok |-> FALSE, heap |-> placed, alt |-> heap]
             ELSE LET c == IF rightpos < Len(heap)
                              /\ ~EntryLess(heap[childpos + 1],
                                            heap[rightpos + 1])
                           THEN rightpos ELSE childpos
                  IN  siftupRun([heap EXCEPT ![pos + 1] = heap[c + 1]],
                                startpos, c, newitem)
        ELSE siftdownRun(placed, startpos, pos, newitem)

\* heapq.heappop on a non-empty heap with the comparison that can raise.
\* The last entry is popped off the list and written over the first one
\* before _siftup runs, so a TypeError leaves the list one entry shorter.
heappopRun(heap) ==
    IF Len(heap) = 1 THEN [ok |-> TRUE, heap |-> <<>>, alt |-> <<>>]
    ELSE siftupRun([Front(heap) EXCEPT ![1] = Last(heap)], 0, 0, Last(heap))

-----------------------------------------------------------------------------
(* The search functions (src/search.py).  A frame is the record of what a  *)
(* running search function reads and writes: its locals (fringe, visited,  *)
(* inFringe, numExpanded), its parameters (maxDepth, heuristic, problem),  *)
(* the module globals (maxMemoryUse, totalStates), and, once it has        *)
(* returned, the tuple it returned.  A fringe node is the record           *)
(* [state, path, cost, goal] (with depth in depthLimitedSearch).           *)
(* f.log is an observer: expanded, the keys this search function handed   *)
(* to getSuccessors, in order; peak, the largest fringe length seen in    *)
(* the top-level call; before and iters, the getSuccessors calls and the  *)
(* depth-limited searches of the top-level call that came earlier.         *)

\* d[key] = value on a Python dict
Put(d, key, value) ==
    [k \in (DOMAIN d) \cup {key} |-> IF k = key THEN value ELSE d[k]]

\* the tuple a search function returns
Result(path, cost, expanded) ==
    [path |-> path, cost |-> cost, expanded |-> expanded]

\* `return path, cost, numExpanded` in a frame
Return(f, path, cost) ==
    [f EXCEPT !.returned = TRUE, !.result = Result(path, cost, f.numExpanded)]

\* variant (a property must tell it from the code): the test before an expansion left out
UnvisitedAlways(state, seen) == TRUE

\* the test `s[0] not in visited` before an expansion
Unvisited(state, seen) == state \notin seen

\* variant (a property must tell it from the code): the test `succ[0] in visited`
FreshInverted(state, seen) == state \in seen

\* the test `succ[0] not in visited` before a successor is put on the fringe
Fresh(state, seen) == state \notin seen

\* variant (a property must tell it from the code): the successor's node with the action put in front of the path
ChildPrepend(s, succ) ==
    [state |-> succ.state, path |-> <<succ.action>> \o s.path,
     cost |-> s.cost + succ.cost, goal |-> succ.goal]

\* variant (a property must tell it from the code): the successor's node with
\* the step cost succ[2] for its cost
ChildStepCost(s, succ) ==
    [state |-> succ.state, path |-> Append(s.path, succ.action),
     cost |-> succ.cost, goal |-> succ.goal]

\* the node built for a successor: (succ[0], s[1] + [succ[1]], s[2] + succ[2], succ[3])
Child(s, succ) ==
    [state |-> succ.state, path |-> Append(s.path, succ.action),
     cost |-> s.cost + succ.cost, goal |-> succ.goal]

\* variant (a property must tell it from the code): the depth tag s[4]
\* copied, not incremented
DeepChildSameDepth(s, succ) ==
    [state |-> succ.state, path |-> Append(s.path, succ.action),
     cost |-> s.cost + succ.cost, goal |-> succ.goal, depth |-> s.depth]

\* the same with the depth tag s[4] + 1
DeepChild(s, succ) ==
    [state |-> succ.state, path |-> Append(s.path, succ.action),
     cost |-> s.cost + succ.cost, goal |-> succ.goal, depth |-> s.depth + 1]

\* the observer's record of a fringe length
Seen(log, n) == [log EXCEPT !.peak = Max(log.peak, n)]

\* the frame a search function starts its loop with: fringe, visited and
\* inFringe created, the start node appended (the list fringe at lines
\* 115-121, 150-156, 181-187; lines 77-83 put the node in a PriorityQueue)
Seeded(p, mem, total, start, maxDepth, h, log) ==
    [fringe |-> <<start>>, visited |-> {},
     inFringe |-> Put(<<>>, start.state, TRUE),
     numExpanded |-> 0, maxDepth |-> maxDepth, heuristic |-> h, problem |-> p,
     maxMemoryUse |-> mem, totalStates |-> total,
     returned |-> FALSE, result |-> Result(<<>>, 0, 0),
     log |-> log]

\* the for loop over the successors in breadthSearch (lines 135-142)
RECURSIVE breadthPush(_, _, _)
breadthPush(f, s, successors) ==
    IF successors = <<>> THEN f
    ELSE LET succ == Head(successors)
             fr == Append(f.fringe, Child(s, succ))
         IN  IF Fresh(succ.state, f.visited)
             THEN breadthPush(
                    [f EXCEPT !.fringe = fr,
                              !.maxMemoryUse = Max(f.maxMemoryUse, Len(fr)),
                              !.inFringe = Put(f.inFringe, succ.state, TRUE),
                              !.log = Seen(f.log, Len(fr))],
                    s, Tail(successors))
             ELSE breadthPush(f, s, Tail(successors))

\* a list without its element at index i
Without(q, i) == SubSeq(q, 1, i - 1) \o SubSeq(q, i + 1, Len(q))

\* variant (a property must tell it from the code): fringe.pop() where breadthSearch has fringe.pop(0)
breadthIndexLast(q) == Len(q)

\* the index fringe.pop(0) removes from a non-empty list
breadthIndex(q) == 1

\* breadthSearch: one pass of `while len(fringe) != 0` (lines 122-142), or
\* the return of line 143 when the fringe is empty
breadthLoop(f) ==
    IF f.fringe = <<>> THEN Return(f, <<>>, Infinity)
    ELSE LET s == f.fringe[breadthIndex(f.fringe)]
             f1 == [f EXCEPT !.fringe = Without(f.fringe, breadthIndex(f.fringe)),
                             !.inFringe = Put(f.inFringe, s.state, FALSE)]
         IN  IF s.goal THEN Return(f1, s.path, s.cost)
             ELSE IF Unvisited(s.state, f.visited)
             THEN breadthPush(
                    [f1 EXCEPT !.numExpanded = f.numExpanded + 1,
                               !.totalStates = f.numExpanded + 1,
                               !.visited = f.visited \cup {s.state},
                               !.problem = ProblemAfterGetSuccessors(f.problem, s.state),
                               !.log.expanded = Append(f.log.expanded, s.state)],
                    s, ProblemGetSuccessors(f.problem, s.state))
             ELSE f1

\* the for loop over the successors in depthSearch (lines 167-172)
RECURSIVE depthPush(_, _, _)
depthPush(f, s, successors) ==
    IF successors = <<>> THEN f
    ELSE LET succ == Head(successors)
             fr == Append(f.fringe, Child(s, succ))
         IN  IF Fresh(succ.state, f.visited)
             THEN depthPush(
                    [f EXCEPT !.fringe = fr,
                              !.inFringe = Put(f.inFringe, succ.state, TRUE),
                              !.maxMemoryUse = Max(f.maxMemoryUse, Len(fr)),
                              !.log = Seen(f.log, Len(fr))],
                    s, Tail(successors))
             ELSE depthPush(f, s, Tail(successors))

\* variant (a property must tell it from the code): fringe.pop(0) where depthSearch has fringe.pop()
depthIndexFirst(q) == 1

\* the index fringe.pop() removes from a non-empty list
depthIndex(q) == Len(q)

\* depthSearch: one pass of `while len(fringe) != 0` (lines 157-172), or the
\* return of line 173
depthLoop(f) ==
    IF f.fringe = <<>> THEN Return(f, <<>>, Infinity)
    ELSE LET s == f.fringe[depthIndex(f.fringe)]
             f1 == [f EXCEPT !.fringe = Without(f.fringe, depthIndex(f.fringe)),
                             !.inFringe = Put(f.inFringe, s.state, FALSE)]
         IN  IF s.goal THEN Return(f1, s.path, s.cost)
             ELSE IF Unvisited(s.state, f.visited)
             THEN depthPush(
                    [f1 EXCEPT !.numExpanded = f.numExpanded + 1,
                               !.totalStates = f.numExpanded + 1,
                               !.visited = f.visited \cup {s.state},
                               !.problem = ProblemAfterGetSuccessors(f.problem, s.state),
                               !.log.expanded = Append(f.log.expanded, s.state)],
                    s, ProblemGetSuccessors(f.problem, s.state))
             ELSE f1

\* the for loop over the successors in depthLimitedSearch (lines 198-203)
RECURSIVE limitedPush(_, _, _)
limitedPush(f, s, successors) ==
    IF successors = <<>> THEN f
    ELSE LET succ == Head(successors)
             fr == Append(f.fringe, DeepChild(s, succ))
         IN  IF Fresh(succ.state, f.visited)
             THEN limitedPush(
                    [f EXCEPT !.fringe = fr,
                              !.inFringe = Put(f.inFringe, succ.state, TRUE),
                              !.maxMemoryUse = Max(f.maxMemoryUse, Len(fr)),
                              !.log = Seen(f.log, Len(fr))],
                    s, Tail(successors))
             ELSE limitedPush(f, s, Tail(successors))

\* variant (a property must tell it from the code): the test `s[4] <= maxDepth` where depthLimitedSearch has `s[4] < maxDepth`
WithinLimitInclusive(depth, maxDepth) == depth <= maxDepth

\* the test `s[4] < maxDepth`
WithinLimit(depth, maxDepth) == depth < maxDepth

\* depthLimitedSearch: one pass of `while len(fringe) != 0` (lines 188-203),
\* or the return of line 204
limitedLoop(f) ==
    IF f.fringe = <<>> THEN Return(f, <<>>, Infinity)
    ELSE LET s == f.fringe[depthIndex(f.fringe)]
             f1 == [f EXCEPT !.fringe = Without(f.fringe, depthIndex(f.fringe)),
                             !.inFringe = Put(f.inFringe, s.state, FALSE)]
         IN  IF s.goal THEN Return(f1, s.path, s.cost)
             ELSE IF Unvisited(s.state, f.visited) /\ WithinLimit(s.depth, f.maxDepth)
             THEN limitedPush(
                    [f1 EXCEPT !.numExpanded = f.numExpanded + 1,
                               !.totalStates = f.totalStates + 1,
                               !.visited = f.visited \cup {s.state},
                               !.problem = ProblemAfterGetSuccessors(f.problem, s.state),
                               !.log.expanded = Append(f.log.expanded, s.state)],
                    s, ProblemGetSuccessors(f.problem, s.state))
             ELSE f1

\* variant (a property must tell it from the code): the priority without the
\* accumulated cost s[2]
PriorityOfStep(s, succ, h) == succ.cost + HeuristicEval(h, succ.state)

\* the priority a successor is pushed with: s[2] + succ[2] + heuristic.eval(succ[0])
Priority(s, succ, h) == s.cost + succ.cost + HeuristicEval(h, succ.state)

\* the for loop over the successors in aStarSearch (lines 95-98)
RECURSIVE aStarPush(_, _, _)
aStarPush(f, s, successors) ==
    IF successors = <<>> THEN f
    ELSE LET succ == Head(successors)
             fr == push(f.fringe, Child(s, succ), Priority(s, succ, f.heuristic))
         IN  IF Fresh(succ.state, f.visited)
             THEN aStarPush(
                    [f EXCEPT !.fringe = fr,
                              !.inFringe = Put(f.inFringe, succ.state, TRUE),
                              !.log = Seen(f.log, Len(fr))],
                    s, Tail(successors))
             ELSE aStarPush(f, s, Tail(successors))

\* aStarSearch: one pass of `while not fringe.isEmpty()` (lines 84-101), or
\* the return of line 102
aStarLoop(f) ==
    IF f.fringe = <<>> THEN Return(f, <<>>, Infinity)
    ELSE LET s == heappopItem(f.fringe).item
             f1 == [f EXCEPT !.fringe = heappopRest(f.fringe),
                             !.inFringe = Put(f.inFringe, s.state, FALSE)]
         IN  IF s.goal THEN Return(f1, s.path, s.cost)
             ELSE IF Unvisited(s.state, f.visited)
             THEN LET f2 == aStarPush(
                              [f1 EXCEPT !.numExpanded = f.numExpanded + 1,
                                         !.visited = f.visited \cup {s.state},
                                         !.problem = ProblemAfterGetSuccessors(f.problem, s.state),
                                         !.log.expanded = Append(f.log.expanded, s.state)],
                              s, ProblemGetSuccessors(f.problem, s.state))
                  IN  [f2 EXCEPT !.maxMemoryUse = Max(f2.maxMemoryUse, Len(f2.fringe)),
                                 !.totalStates = f2.numExpanded]
             ELSE f1

\* one pass of the loop of the search function pc names
Loop(at, f) ==
    CASE at = "bfs" -> breadthLoop(f)
      [] at = "dfs" -> depthLoop(f)
      [] at = "astar" -> aStarLoop(f)
      [] at \in {"dls", "ids_dls"} -> limitedLoop(f)

\* a search function run from a seeded frame until it returns
RECURSIVE Run(_, _)
Run(at, f) == IF f.returned THEN f ELSE Run(at, Loop(at, f))

\* the observer's record at the start of a top-level call
NewLog == [expanded |-> <<>>, peak |-> 1, before |-> 0, iters |-> 0]

\* the observer's record at the start of iterativeDeepening: no fringe yet
IdsLog == [expanded |-> <<>>, peak |-> 0, before |-> 0, iters |-> 0]

\* the observer's record at the start of iterativeDeepening's next search
\* (its fringe holds the start node)
NextLog(log) ==
    [expanded |-> <<>>, peak |-> Max(log.peak, 1),
     before |-> log.before + Len(log.expanded), iters |-> log.iters + 1]

\* the start node (startState, [], 0, problem.isSolved())
StartNode(p) ==
    [state |-> ProblemGetState(p), path |-> <<>>, cost |-> 0,
     goal |-> ProblemIsSolved(p)]

\* the start node of depthLimitedSearch, with depth 0
DeepStartNode(p) ==
    [state |-> ProblemGetState(p), path |-> <<>>, cost |-> 0,
     goal |-> ProblemIsSolved(p), depth |-> 0]

NoHeuristic == [kind |-> "zero"]

\* breadthSearch and depthSearch up to their loop (lines 111-121, 146-156)
ListStart(p) == Seeded(p, 0, 0, StartNode(p), 0, NoHeuristic, NewLog)

\* aStarSearch up to its loop (lines 73-83)
aStarStart(p, h) ==
    [Seeded(p, 0, 0, StartNode(p), 0, h, NewLog) EXCEPT
        !.fringe = push(<<>>, StartNode(p), HeuristicEval(h, ProblemGetState(p)))]

\* variant (a property must tell it from the code): depthLimitedSearch
\* resetting the globals whatever reset is
limitedStartResetting(p, maxDepth, reset, mem, total, log) ==
    Seeded(p, 0, 0, DeepStartNode(p), maxDepth, NoHeuristic, log)

\* depthLimitedSearch up to its loop (lines 176-187); reset is its third
\* parameter, mem and total the globals it finds
limitedStart(p, maxDepth, reset, mem, total, log) ==
    Seeded(p, IF reset THEN 0 ELSE mem, IF reset THEN 0 ELSE total,
           DeepStartNode(p), maxDepth, NoHeuristic, log)

\* variant (a property must tell it from the code): iterativeDeepening's locals with the first depth 0
idsStartAtZero(p, maxDepth) ==
    [state |-> ProblemGetState(p), numExpanded |-> 0, depth |-> 0,
     maxDepth |-> maxDepth]

\* iterativeDeepening's locals after lines 207-213
idsStart(p, maxDepth) ==
    [state |-> ProblemGetState(p), numExpanded |-> 0, depth |-> 1,
     maxDepth |-> maxDepth]

\* variant (a property must tell it from the code): the test `len(path) >= 0`
FoundPathOrEmpty(path) == Len(path) >= 0

\* the test `len(path) > 0` of line 218
FoundPath(path) == Len(path) > 0

\* iterativeDeepening, lines 214-221, given its locals, the problem, the
\* globals and the observer's record: the frame of the search it returns
\* from (its result replaced by iterativeDeepening's own); f is the frame
\* the depth-limited search of line 216 ends in
RECURSIVE idsRun(_, _, _, _, _)
idsRun(loc, p, mem, total, log) ==
    IF loc.depth <= loc.maxDepth
    THEN CHOOSE r \in
           {IF FoundPath(f.result.path)
            THEN [f EXCEPT !.result =
                    Result(f.result.path, f.result.cost,
                           loc.numExpanded + f.result.expanded)]
            ELSE idsRun([loc EXCEPT
                           !.numExpanded = loc.numExpanded + f.result.expanded,
                           !.depth = loc.depth + 1],
                        f.problem, f.maxMemoryUse, f.totalStates, f.log) :
              f \in {Run("ids_dls",
                         limitedStart(ProblemSetState(p, loc.state), loc.depth,
                                      FALSE, mem, total, NextLog(log)))}} : TRUE
    ELSE [Seeded(p, mem, total, DeepStartNode(p), 0, NoHeuristic, log) EXCEPT
            !.returned = TRUE,
            !.result = Result(<<>>, Infinity, loc.numExpanded)]

-----------------------------------------------------------------------------
(* The inputs: the problems a caller constructs and the arguments it       *)
(* passes.                                                                 *)

\* the successor lists a node of a graph problem may have: none, the next
\* node, the next two in either order, the next node and an edge back to
\* the start (targets beyond the last node left out)
Menu(n) ==
    LET OnGraph(l) == SelectSeq(l, LAMBDA t : t \in Nodes)
    IN  << <<>>, OnGraph(<<n + 1>>), OnGraph(<<n + 1, n + 2>>),
           OnGraph(<<n + 2, n + 1>>), OnGraph(<<n + 1, 0>>) >>

\* the goal sets of a graph problem: none, the start, the last node, the
\* last two nodes
GoalSets == {{}, {0}, {NumNodes - 1}, {NumNodes - 2, NumNodes - 1}}

\* step costs by kind of edge: all 1, or an edge that skips a node costs 3
CostSchemes ==
    {[step |-> 1, jump |-> 1, back |-> 1], [step |-> 1, jump |-> 3, back |-> 1]}

\* the nodes a search from set r can put on its fringe (a goal node is
\* never expanded)
RECURSIVE Closure(_, _, _)
Closure(succ, goals, r) ==
    LET more == r \cup {succ[n][i] : <<n, i>> \in
                          {x \in (r \ goals) \X (1 .. 2) : x[2] <= Len(succ[x[1]])}}
    IN  IF more = r THEN r ELSE Closure(succ, goals, more)

\* a graph problem without parts no search can tell apart: a node no search
\* reaches or expands has no successors, and the costs differ from 1 only
\* if some edge skips a node
Canonical(p) ==
    /\ \A n \in Nodes :
          (n \notin Closure(p.succ, p.goals, {p.start}) \/ n \in p.goals)
             => p.succ[n] = <<>>
    /\ p.cost.jump # 1 =>
          \E n \in Nodes : \E i \in 1 .. Len(p.succ[n]) : p.succ[n][i] = n + 2

\* the cheapest cost from node n to a goal of graph problem p over paths of
\* at most k edges (Infinity: there is none)
RECURSIVE CostWithin(_, _, _)
CostWithin(p, n, k) ==
    IF n \in p.goals THEN 0
    ELSE IF k = 0 THEN Infinity
    ELSE LET via == {Min(Infinity, CostOf(p.cost, n, p.succ[n][i])
                                     + CostWithin(p, p.succ[n][i], k - 1)) :
                        i \in 1 .. Len(p.succ[n])}
         IN  IF via = {} THEN Infinity
             ELSE CHOOSE x \in via : \A y \in via : x <= y

\* the graph problems; with each, trueCost[n], the cheapest cost from n to a
\* goal, from which its caller builds heuristics
GraphInputs ==
    {[kind |-> "graph", succ |-> p.succ, goals |-> p.goals, cost |-> p.cost,
      start |-> p.start,
      trueCost |-> [i \in 1 .. NumNodes |-> CostWithin(p, i - 1, NumNodes)]] :
        p \in {q \in {[succ |-> [n \in Nodes |-> Menu(n)[c[n]]],
                       goals |-> g, cost |-> k, start |-> 0] :
                        c \in [Nodes -> 1 .. Len(Menu(0))], g \in GoalSets,
                        k \in CostSchemes} :
                 Canonical(q)}}

\* the cheapest cost from node n to a goal
TrueCost(n) == input.trueCost[n + 1]

\* the heuristics handed to aStarSearch on a graph problem: 0 everywhere,
\* the true remaining cost, and the true remaining cost at one node with 0
\* elsewhere
Finite(x) == IF x < Infinity THEN x ELSE 0

GraphHeuristics ==
    {NoHeuristic, [kind |-> "table", table |-> [n \in Nodes |-> Finite(TrueCost(n))]]}
    \cup {[kind |-> "table",
           table |-> [n \in Nodes |-> IF n = k THEN Finite(TrueCost(n)) ELSE 0]] :
             k \in Nodes}

Heuristics == IF input.kind = "puzzle" THEN {NoHeuristic} ELSE GraphHeuristics

\* the depth bounds passed to depthLimitedSearch and iterativeDeepening
DepthArgs == 0 .. MaxDepthArg

-----------------------------------------------------------------------------
(* The state machine.  An action binds the frame it moves to with \E over  *)
(* a one-element set: the frame is one value, computed once.               *)

NoRet == [strategy |-> "none", maxDepth |-> 0, heuristic |-> NoHeuristic,
          path |-> <<>>, cost |-> 0, expanded |-> 0]

NoIds == [state |-> input.start, numExpanded |-> 0, depth |-> 0, maxDepth |-> 0]

\* the running search function's frame
Frame ==
    [fringe |-> fringe, visited |-> visited, inFringe |-> inFringe,
     numExpanded |-> numExpanded, maxDepth |-> dls, heuristic |-> heuristic,
     problem |-> problem, maxMemoryUse |-> maxMemoryUse,
     totalStates |-> totalStates, returned |-> FALSE,
     result |-> Result(<<>>, 0, 0), log |-> hist]

\* the machine inside the loop of a search function whose frame is f
Running(f) ==
    /\ fringe' = f.fringe
    /\ visited' = f.visited
    /\ inFringe' = f.inFringe
    /\ numExpanded' = f.numExpanded
    /\ dls' = f.maxDepth
    /\ heuristic' = f.heuristic
    /\ problem' = f.problem
    /\ maxMemoryUse' = f.maxMemoryUse
    /\ totalStates' = f.totalStates
    /\ hist' = f.log

\* a search function has returned from frame f: its locals are gone
Exited(f) ==
    /\ fringe' = <<>>
    /\ visited' = {}
    /\ inFringe' = <<>>
    /\ numExpanded' = 0
    /\ dls' = 0
    /\ heuristic' = NoHeuristic
    /\ problem' = f.problem
    /\ maxMemoryUse' = f.maxMemoryUse
    /\ totalStates' = f.totalStates
    /\ hist' = f.log

\* the top-level call returns r to its caller
Returned(strategy, r) ==
    /\ pc' = "idle"
    /\ ids' = NoIds
    /\ ret' = [strategy |-> strategy,
               maxDepth |-> IF strategy = "ids" THEN ids.maxDepth ELSE dls,
               heuristic |-> heuristic,
               path |-> r.path, cost |-> r.cost, expanded |-> r.expanded]

InitEngine ==
    /\ pc = "idle"
    /\ fringe = <<>>
    /\ visited = {}
    /\ inFringe = <<>>
    /\ numExpanded = 0
    /\ dls = 0
    /\ ids = NoIds
    /\ heuristic = NoHeuristic
    /\ maxMemoryUse = 0
    /\ totalStates = 0
    /\ ret = NoRet
    /\ hist = NewLog

\* a caller has constructed a graph problem in its start state
InitGraph ==
    /\ input \in GraphInputs
    /\ problem = [cur |-> input.start]
    /\ InitEngine

\* the dimensions of the sliding puzzles
PuzzleDims == {<<2, 2>>, <<1, 3>>, <<3, 1>>}

\* the boards of a puzzle: every arrangement of its tiles
Boards(numR, numC) ==
    {[r \in 1 .. numR |-> [c \in 1 .. numC |-> f[(r - 1) * numC + c]]] :
        f \in {g \in [1 .. numR * numC -> 0 .. (numR * numC - 1)] :
                 \A i, j \in 1 .. numR * numC : i # j => g[i] # g[j]}}

\* the puzzle SlidingPuzzle.__init__ builds before it scrambles it
Constructed(numR, numC) ==
    [board |-> SolvedBoard(numR, numC),
     pos |-> <<Blank \div numC, Blank % numC>>,
     numMisplaced |-> 0]

PuzzleInputs ==
    {[kind |-> "puzzle", numR |-> d[1], numC |-> d[2], start |-> BoardStr(b)] :
        <<d, b>> \in {x \in PuzzleDims \X UNION {Boards(e[1], e[2]) : e \in PuzzleDims} :
                        x[2] \in Boards(x[1][1], x[1][2])}}

\* a caller has constructed a sliding puzzle and set it to a start state
InitPuzzle ==
    /\ input \in PuzzleInputs
    /\ problem = setState(Constructed(input.numR, input.numC), input.start,
                          input.numR, input.numC)
    /\ InitEngine

\* breadthSearch(problem) is called
CallBreadthSearch ==
    /\ pc = "idle"
    /\ pc' = "bfs"
    /\ \E f \in {ListStart(problem)} : Running(f)
    /\ ret' = NoRet
    /\ UNCHANGED <<input, ids>>

\* depthSearch(problem) is called
CallDepthSearch ==
    /\ pc = "idle"
    /\ pc' = "dfs"
    /\ \E f \in {ListStart(problem)} : Running(f)
    /\ ret' = NoRet
    /\ UNCHANGED <<input, ids>>

\* aStarSearch(problem, heuristic) is called
CallAStarSearch ==
    /\ pc = "idle"
    /\ \E h \in Heuristics :
          \E f \in {aStarStart(problem, h)} : Running(f)
    /\ pc' = "astar"
    /\ ret' = NoRet
    /\ UNCHANGED <<input, ids>>

\* depthLimitedSearch(problem, maxDepth) is called
CallDepthLimitedSearch ==
    /\ pc = "idle"
    /\ \E d \in DepthArgs :
          \E f \in {limitedStart(problem, d, TRUE, maxMemoryUse, totalStates, NewLog)} :
             Running(f)
    /\ pc' = "dls"
    /\ ret' = NoRet
    /\ UNCHANGED <<input, ids>>

\* one pass of the loop of breadthSearch, depthSearch, aStarSearch or a
\* top-level depthLimitedSearch; the pass that returns ends the call
SearchLoop ==
    /\ pc \in {"bfs", "dfs", "astar", "dls"}
    /\ \E f \in {Loop(pc, Frame)} :
          IF f.returned
          THEN Exited(f) /\ Returned(pc, f.result)
          ELSE Running(f) /\ UNCHANGED <<pc, ids, ret>>
    /\ UNCHANGED input

\* iterativeDeepening(problem, maxDepth) is called (lines 207-213)
CallIterativeDeepening ==
    /\ pc = "idle"
    /\ \E d \in DepthArgs : ids' = idsStart(problem, d)
    /\ pc' = "ids"
    /\ maxMemoryUse' = 0
    /\ totalStates' = 0
    /\ hist' = IdsLog
    /\ ret' = NoRet
    /\ UNCHANGED <<input, problem, fringe, visited, inFringe, numExpanded, dls,
                   heuristic>>

\* iterativeDeepening, lines 214-216: the next depth-limited search starts
IdsIterate ==
    /\ pc = "ids"
    /\ ids.depth <= ids.maxDepth
    /\ \E f \in {limitedStart(ProblemSetState(problem, ids.state), ids.depth,
                                FALSE, maxMemoryUse, totalStates, NextLog(hist))} :
          Running(f)
    /\ pc' = "ids_dls"
    /\ UNCHANGED <<input, ids, ret>>

\* one pass of the loop of the depth-limited search iterativeDeepening runs;
\* the pass that returns goes on with lines 217-220
IdsSearchLoop ==
    /\ pc = "ids_dls"
    /\ \E f \in {Loop(pc, Frame)} :
          \E n \in {ids.numExpanded + f.result.expanded} :
             IF ~f.returned
             THEN Running(f) /\ UNCHANGED <<pc, ids, ret>>
             ELSE /\ Exited(f)
                  /\ IF FoundPath(f.result.path)
                     THEN Returned("ids", Result(f.result.path, f.result.cost, n))
                     ELSE /\ ids' = [ids EXCEPT !.numExpanded = n, !.depth = ids.depth + 1]
                          /\ pc' = "ids"
                          /\ UNCHANGED ret
    /\ UNCHANGED input

\* iterativeDeepening, line 221: no depth is left
IdsGiveUp ==
    /\ pc = "ids"
    /\ ids.depth > ids.maxDepth
    /\ Returned("ids", Result(<<>>, Infinity, ids.numExpanded))
    /\ UNCHANGED <<input, problem, fringe, visited, inFringe, numExpanded, dls,
                   heuristic, maxMemoryUse, totalStates, hist>>

Next ==
    \/ CallBreadthSearch
    \/ CallDepthSearch
    \/ CallAStarSearch
    \/ CallDepthLimitedSearch
    \/ CallIterativeDeepening
    \/ SearchLoop
    \/ IdsIterate
    \/ IdsSearchLoop
    \/ IdsGiveUp

Init == InitGraph \/ InitPuzzle

Spec == Init /\ [][Next]_vars

\* the pc values inside a while loop over the fringe
LoopPcs == {"bfs", "dfs", "astar", "dls", "ids_dls"}

\* the steps of a running call that evaluate the problem: a pass of the while
\* loop of a search function, or iterativeDeepening starting its next search
Work == SearchLoop \/ IdsSearchLoop \/ IdsIterate

\* Work can be taken (it always changes the fringe or returns)
WorkEnabled == pc \in LoopPcs \/ (pc = "ids" /\ ids.depth <= ids.maxDepth)

\* The engine is synchronous and single-threaded: a call, once made, is not
\* suspended, so each of its steps is weakly fair.  For Work the condition
\* is WF_vars(Work) with ENABLED <<Work>>_vars written out as WorkEnabled.
FairSpec ==
    /\ Spec
    /\ WF_vars(IdsGiveUp)
    /\ ([]<>(~WorkEnabled) \/ []<><<Work>>_vars)

-----------------------------------------------------------------------------
(* PriorityQueue used on its own (src/search.py:51-68): a caller makes a   *)
(* queue and calls push and pop on it.  fringe is the list __heap, ret     *)
(* what the last call gave its caller (for push, its arguments), hist the  *)
(* observer counting the pushes called and the pops that returned.  The    *)
(* items are node tuples that differ in their state key only; the keys     *)
(* are ints or objects with no order (OpaqueKeys).                         *)

\* the calls of push one queue receives
MaxPushes == 4

QueuePriorities == {1, 2}

QueueKeys == {0, 1} \cup OpaqueKeys

QueueItem(key) == [state |-> key, path |-> <<>>, cost |-> 0, goal |-> FALSE]

\* PriorityQueue(): __init__ makes the empty list
PQMade ==
    [pc |-> "queue", heap |-> <<>>,
     ret |-> [op |-> "new", error |-> "none", item |-> QueueItem(0),
              priority |-> 0],
     log |-> [pushes |-> 0, pops |-> 0]]

InitQueue ==
    /\ input = [kind |-> "queue"]
    /\ problem = [cur |-> 0]
    /\ pc = PQMade.pc
    /\ fringe = PQMade.heap
    /\ visited = {}
    /\ inFringe = <<>>
    /\ numExpanded = 0
    /\ dls = 0
    /\ ids = [state |-> 0, numExpanded |-> 0, depth |-> 0, maxDepth |-> 0]
    /\ heuristic = NoHeuristic
    /\ maxMemoryUse = 0
    /\ totalStates = 0
    /\ ret = PQMade.ret
    /\ hist = PQMade.log

QueueUnchanged ==
    UNCHANGED <<input, problem, visited, inFringe, numExpanded, dls, ids,
                heuristic, maxMemoryUse, totalStates>>

\* queue.push(item, priority)
PQPush(item, priority) ==
    /\ pc = "queue"
    /\ hist.pushes < MaxPushes
    /\ \E r \in {heappushRun(fringe, [priority |-> priority, item |-> item])} :
         /\ fringe' \in {r.heap, r.alt}
         /\ pc' = IF r.ok THEN "queue" ELSE "raised"
         /\ ret' = [op |-> "push",
                    error |-> IF r.ok THEN "none" ELSE "TypeError",
                    item |-> item, priority |-> priority]
    /\ hist' = [hist EXCEPT !.pushes = @ + 1]
    /\ QueueUnchanged

\* queue.pop(): heappop raises IndexError on the empty list; otherwise the
\* first entry is returned as (item, priority) unless a comparison raises
PQPop ==
    /\ pc = "queue"
    /\ IF isEmpty(fringe)
       THEN /\ fringe' = fringe
            /\ pc' = "queue"
            /\ ret' = [op |-> "pop", error |-> "IndexError",
                       item |-> QueueItem(0), priority |-> 0]
            /\ hist' = hist
       ELSE \E r \in {heappopRun(fringe)} :
              /\ fringe' \in {r.heap, r.alt}
              /\ pc' = IF r.ok THEN "queue" ELSE "raised"
              /\ ret' = IF r.ok
                        THEN [op |-> "pop", error |-> "none",
                              item |-> heappopItem(fringe).item,
                              priority |-> heappopItem(fringe).priority]
                        ELSE [op |-> "pop", error |-> "TypeError",
                              item |-> QueueItem(0), priority |-> 0]
              /\ hist' = IF r.ok THEN [hist EXCEPT !.pops = @ + 1] ELSE hist
    /\ QueueUnchanged

\* the caller of a call that raised TypeError drops the queue and makes a
\* new one
PQNew ==
    /\ pc = "raised"
    /\ pc' = PQMade.pc
    /\ fringe' = PQMade.heap
    /\ ret' = PQMade.ret
    /\ hist' = PQMade.log
    /\ QueueUnchanged

NextQueue ==
    \/ \E key \in QueueKeys, priority \in QueuePriorities :
         PQPush(QueueItem(key), priority)
    \/ PQPop
    \/ PQNew

SpecQueue == InitQueue /\ [][NextQueue]_vars

-----------------------------------------------------------------------------
(* SlidingPuzzle used on its own (src/slidingpuzzle.py:47-192): a caller   *)
(* constructs a puzzle and calls setState, move, getSuccessors and         *)
(* getScrambledStates on it.  problem is the object (board, pos,           *)
(* numMisplaced), input its dimensions, ret the last call: its name, its   *)
(* argument, the exception it raised ("none": it returned) and what it     *)
(* returned: the cost of move, the successors of getSuccessors, the states *)
(* of getScrambledStates.  getState, isSolved and legalMoves change        *)
(* nothing and are read off the object.                                    *)

\* the numTurns a caller passes
MaxTurns == 3

\* the numStates a caller passes
MaxStates == 2

\* the exception setState raises on a state string ("none": it accepts it).
\* The rows are taken in order: a row of the wrong length stops at line 108,
\* whose message reads self.numC, an attribute the class does not have; a
\* tile out of range or met before stops at lines 113 and 115.
SetStateError(p, state, numR, numC) ==
    LET rows == ParseRows(state)
        flat == Flatten(rows)
        before(i) == Len(Flatten(SubSeq(rows, 1, i - 1)))
        badLen(i) == Len(rows[i]) # Len(p.board[i])
        badTile(i) ==
            \E j \in 1 .. Len(rows[i]) :
               \/ rows[i][j] < 0
               \/ rows[i][j] >= numR * numC
               \/ \E k \in 1 .. (before(i) + j - 1) : flat[k] = rows[i][j]
        bad == {i \in 1 .. Len(rows) : badLen(i) \/ badTile(i)}
        first == CHOOSE i \in bad : \A k \in bad : i <= k
    IN  IF Len(rows) # numR THEN "ValueError"
        ELSE IF bad = {} THEN "none"
        ELSE IF badLen(first) THEN "AttributeError"
        ELSE "ValueError"

\* variant (a property must tell it from the code): the successors appended
\* with the depth s[1] of their parent
RECURSIVE scramblePushSameDepth(_, _, _)
scramblePushSameDepth(fr, depth, successors) ==
    IF successors = <<>> THEN fr
    ELSE IF Head(successors).state \notin fr.inFringe
    THEN scramblePushSameDepth(
           [fr EXCEPT !.fringe = Append(fr.fringe, [state |-> Head(successors).state,
                                                    depth |-> depth]),
                      !.inFringe = fr.inFringe \cup {Head(successors).state}],
           depth, Tail(successors))
    ELSE scramblePushSameDepth(fr, depth, Tail(successors))

\* the for loop of getScrambledStates (lines 77-80)
RECURSIVE scramblePush(_, _, _)
scramblePush(fr, depth, successors) ==
    IF successors = <<>> THEN fr
    ELSE IF Head(successors).state \notin fr.inFringe
    THEN scramblePush(
           [fr EXCEPT !.fringe = Append(fr.fringe, [state |-> Head(successors).state,
                                                    depth |-> depth + 1]),
                      !.inFringe = fr.inFringe \cup {Head(successors).state}],
           depth, Tail(successors))
    ELSE scramblePush(fr, depth, Tail(successors))

\* the while loop of getScrambledStates (lines 74-80): fringe[0] raises
\* IndexError once the list is empty
RECURSIVE scrambleLoop(_, _, _, _)
scrambleLoop(fr, numTurns, numR, numC) ==
    IF fr.fringe = <<>> THEN [fr EXCEPT !.error = "IndexError"]
    ELSE IF Head(fr.fringe).depth < numTurns
    THEN LET s == Head(fr.fringe)
         IN  scrambleLoop(
               scramblePush(
                 [fr EXCEPT !.fringe = Tail(fr.fringe),
                            !.puzzle = AfterGetSuccessors(fr.puzzle, s.state, numR, numC)],
                 s.depth, getSuccessors(fr.puzzle, s.state, numR, numC)),
               numTurns, numR, numC)
    ELSE fr

\* getScrambledStates up to line 80 on puzzle object p
scrambleFringe(p, numTurns, numR, numC) ==
    scrambleLoop([fringe |-> <<[state |-> getState(p), depth |-> 0]>>,
                  inFringe |-> {getState(p)}, puzzle |-> p, error |-> "none"],
                 numTurns, numR, numC)

\* random.sample(q, k) for k <= len(q): the lists it can return
Samples(q, k) ==
    {[i \in 1 .. k |-> q[f[i]].state] :
        f \in {g \in [1 .. k -> 1 .. Len(q)] :
                 \A i, j \in 1 .. k : i # j => g[i] # g[j]}}

\* SlidingPuzzle.getScrambledStates(numTurns, numStates) on object p: the
\* outcomes it can have (random.sample raises ValueError when the fringe
\* holds fewer than numStates entries)
getScrambledStates(p, numTurns, numStates, numR, numC) ==
    LET fr == scrambleFringe(p, numTurns, numR, numC)
    IN  IF fr.error # "none"
        THEN {[error |-> fr.error, value |-> <<>>, puzzle |-> fr.puzzle]}
        ELSE IF numStates > Len(fr.fringe)
        THEN {[error |-> "ValueError", value |-> <<>>, puzzle |-> fr.puzzle]}
        ELSE {[error |-> "none", value |-> v, puzzle |-> fr.puzzle] :
                 v \in Samples(fr.fringe, numStates)}

\* SlidingPuzzle(numRows, numColumns, numTurns): the outcomes of __init__
\* (line 64 takes numStates = 1 and sets the puzzle to the state returned)
Constructions(numR, numC, numTurns) ==
    {[error |-> o.error,
      puzzle |-> IF o.error = "none"
                 THEN setState(o.puzzle, o.value[1], numR, numC)
                 ELSE o.puzzle] :
        o \in getScrambledStates(Constructed(numR, numC), numTurns, 1, numR, numC)}

\* what a caller passes for numTurns
TurnArgs == 0 .. MaxTurns

\* state strings setState refuses: a board of other dimensions, a first row
\* one tile too long, a tile met twice, a tile out of range
BadStates(numR, numC) ==
    {BoardStr(b) : b \in UNION {Boards(d[1], d[2]) :
                                  d \in {e \in PuzzleDims : e[1] # numR}}}
    \cup {BoardStr([SolvedBoard(numR, numC) EXCEPT ![1] = Append(@, numR * numC)]),
          BoardStr([SolvedBoard(numR, numC) EXCEPT ![numR][numC] = Blank]),
          BoardStr([SolvedBoard(numR, numC) EXCEPT ![numR][numC] = numR * numC])}

\* the strings a caller passes to setState and getSuccessors
StateArgs(numR, numC) ==
    {BoardStr(b) : b \in Boards(numR, numC)} \cup BadStates(numR, numC)

\* the directions a caller passes to move: the four of the docstring, no
\* move at all, a diagonal and a double step
MoveArgs == {Up, Down, Left, Right, <<0, 0>>, <<1, 1>>, <<0, 2>>}

PuzzleCall(op, arg, error, cost, successors, states) ==
    [op |-> op, arg |-> arg, error |-> error, cost |-> cost,
     successors |-> successors, states |-> states]

PuzzleUnchanged ==
    UNCHANGED <<pc, fringe, visited, inFringe, numExpanded, dls, ids,
                heuristic, maxMemoryUse, totalStates, hist>>

\* a caller has constructed a puzzle
InitSlidingPuzzle ==
    /\ \E d \in PuzzleDims, numTurns \in TurnArgs :
         \E o \in Constructions(d[1], d[2], numTurns) :
            /\ o.error = "none"
            /\ input = [kind |-> "puzzle", numR |-> d[1], numC |-> d[2],
                        start |-> BoardStr(SolvedBoard(d[1], d[2]))]
            /\ problem = o.puzzle
            /\ ret = PuzzleCall("SlidingPuzzle", <<numTurns>>, "none", 0, <<>>, <<>>)
    /\ pc = "puzzle"
    /\ fringe = <<>>
    /\ visited = {}
    /\ inFringe = <<>>
    /\ numExpanded = 0
    /\ dls = 0
    /\ ids = [state |-> <<>>, numExpanded |-> 0, depth |-> 0, maxDepth |-> 0]
    /\ heuristic = NoHeuristic
    /\ maxMemoryUse = 0
    /\ totalStates = 0
    /\ hist = NewLog

\* SlidingPuzzle(numRows, numColumns, numTurns) is called again: the caller
\* keeps the puzzle it has when the constructor raises
PuzzleConstruct ==
    /\ pc = "puzzle"
    /\ \E d \in PuzzleDims, numTurns \in TurnArgs :
         \E o \in Constructions(d[1], d[2], numTurns) :
            /\ ret' = PuzzleCall("SlidingPuzzle", <<numTurns>>, o.error, 0, <<>>, <<>>)
            /\ IF o.error = "none"
               THEN /\ problem' = o.puzzle
                    /\ input' = [kind |-> "puzzle", numR |-> d[1], numC |-> d[2],
                                 start |-> BoardStr(SolvedBoard(d[1], d[2]))]
               ELSE UNCHANGED <<problem, input>>
    /\ PuzzleUnchanged

\* puzzle.setState(state)
PuzzleSetState(state) ==
    /\ pc = "puzzle"
    /\ \E e \in {SetStateError(problem, state, input.numR, input.numC)} :
         /\ ret' = PuzzleCall("setState", state, e, 0, <<>>, <<>>)
         /\ problem' = IF e = "none"
                       THEN setState(problem, state, input.numR, input.numC)
                       ELSE problem
    /\ UNCHANGED input
    /\ PuzzleUnchanged

\* puzzle.move(dir): ValueError at line 134 or 137, else the move and cost 1
PuzzleMove(dir) ==
    /\ pc = "puzzle"
    /\ IF MoveOK(problem, dir, input.numR, input.numC)
       THEN /\ problem' = move(problem, dir, input.numR, input.numC)
            /\ ret' = PuzzleCall("move", dir, "none", MoveCost, <<>>, <<>>)
       ELSE /\ problem' = problem
            /\ ret' = PuzzleCall("move", dir, "ValueError", 0, <<>>, <<>>)
    /\ UNCHANGED input
    /\ PuzzleUnchanged

\* puzzle.getSuccessors(state): setState(state) at line 181 raises before
\* anything is changed
PuzzleGetSuccessors(state) ==
    /\ pc = "puzzle"
    /\ \E e \in {SetStateError(problem, state, input.numR, input.numC)} :
         IF e = "none"
         THEN /\ problem' = AfterGetSuccessors(problem, state, input.numR, input.numC)
              /\ ret' = PuzzleCall("getSuccessors", state, "none", 0,
                                   getSuccessors(problem, state, input.numR, input.numC),
                                   <<>>)
         ELSE /\ problem' = problem
              /\ ret' = PuzzleCall("getSuccessors", state, e, 0, <<>>, <<>>)
    /\ UNCHANGED input
    /\ PuzzleUnchanged

\* puzzle.getScrambledStates(numTurns, numStates)
PuzzleGetScrambledStates(numTurns, numStates) ==
    /\ pc = "puzzle"
    /\ \E o \in getScrambledStates(problem, numTurns, numStates,
                                   input.numR, input.numC) :
         /\ problem' = o.puzzle
         /\ ret' = PuzzleCall("getScrambledStates", <<numTurns, numStates>>,
                              o.error, 0, <<>>, o.value)
    /\ UNCHANGED input
    /\ PuzzleUnchanged

NextSlidingPuzzle ==
    \/ PuzzleConstruct
    \/ \E state \in StateArgs(input.numR, input.numC) : PuzzleSetState(state)
    \/ \E dir \in MoveArgs : PuzzleMove(dir)
    \/ \E state \in StateArgs(input.numR, input.numC) : PuzzleGetSuccessors(state)
    \/ \E numTurns \in TurnArgs, numStates \in 0 .. MaxStates :
         PuzzleGetScrambledStates(numTurns, numStates)

SpecSlidingPuzzle == InitSlidingPuzzle /\ [][NextSlidingPuzzle]_vars

-----------------------------------------------------------------------------
(* The driver (uninformed_search.py) as a state machine of its own.  input *)
(* is the puzzle of the run (args.rows, args.columns) with the initState   *)
(* last passed as its start, problem the puzzle object p, maxMemoryUse and *)
(* totalStates the globals of search.py, hist the observer's record of the *)
(* last search, pc the position of lab ("driver": lab is not running,      *)
(* "lab_bfs" .. "lab_iterative": lab is about to run that block) and ret   *)
(* the last call: its name, its arguments, the exception it raised         *)
(* ("none": it returned), the path, cost and numExpanded it returned and,  *)
(* for lab, the line each block printed so far.  A driver function is      *)
(* called by a caller of its own or by the block of lab at pc.  A search   *)
(* runs to its return within the call; the timer of util.timeout, a module *)
(* these sources do not hold, does not expire on puzzles of these sizes.   *)

\* the initState strings the driver functions are passed: the states lab
\* takes from getScrambledStates (lines 97-98)
DriverStates ==
    UNION {{o.value[1] :
              o \in {x \in getScrambledStates(Constructed(input.numR, input.numC),
                                              numTurns, 1, input.numR, input.numC) :
                        x.error = "none"}} :
           numTurns \in TurnArgs}

\* the depth bounds lab passes to dls: depth + 3 (line 122)
LimitArgs == {depth + 3 : depth \in TurnArgs}

DriverCall(fn, arg, error, r, reports) ==
    [fn |-> fn, arg |-> arg, error |-> error, path |-> r.path,
     cost |-> r.cost, expanded |-> r.expanded, reports |-> reports]

\* what the driver leaves alone: the locals of the search functions
DriverUnchanged ==
    UNCHANGED <<fringe, visited, inFringe, numExpanded, dls, ids, heuristic>>

\* a puzzle of args.rows by args.columns has been built as line 96 builds
\* it, solved; no function of the driver has been called
InitDriver ==
    /\ \E d \in PuzzleDims :
         /\ input = [kind |-> "puzzle", numR |-> d[1], numC |-> d[2],
                     start |-> BoardStr(SolvedBoard(d[1], d[2]))]
         /\ problem = Constructed(d[1], d[2])
    /\ ret = DriverCall("main", <<>>, "none", Result(<<>>, 0, 0), <<>>)
    /\ pc = "driver"
    /\ fringe = <<>>
    /\ visited = {}
    /\ inFringe = <<>>
    /\ numExpanded = 0
    /\ dls = 0
    /\ ids = [state |-> <<>>, numExpanded |-> 0, depth |-> 0, maxDepth |-> 0]
    /\ heuristic = NoHeuristic
    /\ maxMemoryUse = 0
    /\ totalStates = 0
    /\ hist = NewLog

\* the block of lab that follows the block at a position
AfterBlock(at) ==
    CASE at = "lab_bfs" -> "lab_dfs"
      [] at = "lab_dfs" -> "lab_dls"
      [] at = "lab_dls" -> "lab_iterative"
      [] at = "lab_iterative" -> "driver"

\* what print_result prints after the counts (lines 82-90)
PrintResult(p, r) ==
    IF r.path = <<>> /\ ~isSolved(p) THEN "No solution found!"
    ELSE "Action sequence"

\* what the except clause of a block of lab prints first
TookTooLong == "Search took too long"

\* a driver function is called with initState and, for dls and iterative,
\* a depth bound: by a caller of its own, or by its block of lab, which
\* passes lab's initState and a bound made of lab's depth (lines 104, 113,
\* 122, 132)
DriverCalled(at, initState, bound) ==
    /\ pc \in {"driver", at}
    /\ (pc = at) => /\ initState = input.start
                    /\ bound = IF at = "lab_dls" THEN ret.arg[1] + 3
                               ELSE IF at = "lab_iterative" THEN ret.arg[1]
                               ELSE bound

\* a driver function ends, p the puzzle and mem, total the globals it
\* leaves: its caller has what it returned or raised; a block of lab prints
\* the result with print_result, or the line of its except clause when the
\* call raised, and lab goes on to its next block
DriverEnds(fn, arg, initState, error, p, mem, total, log, r) ==
    /\ input' = [input EXCEPT !.start = initState]
    /\ problem' = p
    /\ maxMemoryUse' = mem
    /\ totalStates' = total
    /\ hist' = log
    /\ IF pc = "driver"
       THEN /\ pc' = pc
            /\ ret' = DriverCall(fn, arg, error, r, <<>>)
       ELSE /\ pc' = AfterBlock(pc)
            /\ ret' = [ret EXCEPT !.reports =
                          Append(@, IF error # "none" THEN TookTooLong
                                    ELSE PrintResult(p, r))]
    /\ DriverUnchanged

\* a driver function returns what the search that ended in frame f returned
DriverReturned(fn, arg, initState, f) ==
    DriverEnds(fn, arg, initState, "none", f.problem, f.maxMemoryUse,
               f.totalStates, f.log, f.result)

\* bfs(p, initState), lines 58-66
DriverBfs(initState) ==
    /\ DriverCalled("lab_bfs", initState, 0)
    /\ \E f \in {Run("bfs", ListStart(ProblemSetState(problem, initState)))} :
         DriverReturned("bfs", <<initState>>, initState, f)

\* dfs(p, initState), lines 38-46
DriverDfs(initState) ==
    /\ DriverCalled("lab_dfs", initState, 0)
    /\ \E f \in {Run("dfs", ListStart(ProblemSetState(problem, initState)))} :
         DriverReturned("dfs", <<initState>>, initState, f)

\* dls(p, initState, limit), lines 48-56: line 53 calls
\* search.depthLimitedSearch(limit), one argument for the two required
\* parameters (problem, maxDepth) of search.py line 175, so the call raises
\* TypeError before the body of depthLimitedSearch runs
DriverDls(initState, limit) ==
    /\ DriverCalled("lab_dls", initState, limit)
    /\ DriverEnds("dls", <<initState, limit>>, initState, "TypeError",
                  ProblemSetState(problem, initState), maxMemoryUse,
                  totalStates, hist, Result(<<>>, 0, 0))

\* iterative(p, initState, maxDepth), lines 68-76
DriverIterative(initState, maxDepth) ==
    /\ DriverCalled("lab_iterative", initState, maxDepth)
    /\ \E p \in {ProblemSetState(problem, initState)} :
         \E f \in {idsRun(idsStart(p, maxDepth), p, 0, 0, IdsLog)} :
            DriverReturned("iterative", <<initState, maxDepth>>, initState, f)

\* lab(args) with depth read from the input, up to its first block (lines
\* 94-101): an exception of getScrambledStates is not caught and ends lab.
\* Its four blocks (lines 102-137) are the driver functions called at
\* lab_bfs, lab_dfs, lab_dls and lab_iterative.
Lab(depth) ==
    /\ pc = "driver"
    /\ \E c \in Constructions(input.numR, input.numC, 0) :
         \E o \in getScrambledStates(c.puzzle, depth, 1, input.numR, input.numC) :
            /\ problem' = o.puzzle
            /\ ret' = DriverCall("lab", <<depth>>, o.error, Result(<<>>, 0, 0), <<>>)
            /\ IF o.error # "none"
               THEN UNCHANGED <<pc, input>>
               ELSE /\ pc' = "lab_bfs"
                    /\ input' = [input EXCEPT !.start = o.value[1]]
    /\ UNCHANGED <<maxMemoryUse, totalStates, hist>>
    /\ DriverUnchanged

NextDriver ==
    \/ \E initState \in DriverStates : DriverBfs(initState)
    \/ \E initState \in DriverStates : DriverDfs(initState)
    \/ \E initState \in DriverStates, limit \in LimitArgs :
         DriverDls(initState, limit)
    \/ \E initState \in DriverStates, maxDepth \in TurnArgs :
         DriverIterative(initState, maxDepth)
    \/ \E depth \in TurnArgs : Lab(depth)

SpecDriver == InitDriver /\ [][NextDriver]_vars

-----------------------------------------------------------------------------
(* Reference notions the properties are stated with.  They are computed    *)
(* from the problem alone (its successor relation, goal test and step      *)
(* costs), not by the search functions.                                    *)

\* the named top-level call has returned
Stopped(strategy) == pc = "idle" /\ ret.strategy = strategy

\* some top-level call has returned
Done == pc = "idle" /\ ret.strategy # "none"

\* the successor list of state key s
Successors(s) == ProblemGetSuccessors(problem, s)

\* the goal test on state key s
IsGoal(s) == ProblemIsSolved(ProblemSetState(problem, s))

\* the fewest actions from a state of frontier to a goal, k actions from the
\* start, looking no further than bound actions from the start (Infinity:
\* no goal is that near)
RECURSIVE Distance(_, _, _, _)
Distance(frontier, seen, k, bound) ==
    IF \E s \in frontier : IsGoal(s) THEN k
    ELSE IF frontier = {} \/ k >= bound THEN Infinity
    ELSE LET next == UNION {{Successors(s)[i].state : i \in 1 .. Len(Successors(s))} :
                               s \in frontier} \ seen
         IN  Distance(next, seen \cup next, k + 1, bound)

\* the depth of the shallowest goal (Infinity: no goal is reachable)
GoalDistance == Distance({input.start}, {input.start}, 0, Infinity)

\* the depth of the shallowest goal among those at most d actions away
GoalDistanceWithin(d) == Distance({input.start}, {input.start}, 0, d)

\* every step cost of the problem is 1
UnitCosts ==
    IF input.kind = "puzzle" THEN MoveCost = 1
    ELSE input.cost.step = 1 /\ input.cost.jump = 1 /\ input.cost.back = 1

\* the cost of a cheapest path from the start to a goal
MinCost ==
    IF input.kind = "puzzle" THEN GoalDistance * MoveCost ELSE TrueCost(input.start)

\* heuristic h never overestimates the cheapest remaining cost
Admissible(h) ==
    \/ h.kind = "zero"
    \/ input.kind = "graph" /\ \A n \in Nodes : HeuristicEval(h, n) <= TrueCost(n)

\* the problem accepts action a in the state of object p
ProblemCanMove(p, a) ==
    IF input.kind = "puzzle" THEN MoveOK(p, a, input.numR, input.numC)
    ELSE \E i \in 1 .. Len(input.succ[p.cur]) : input.succ[p.cur][i] = a

\* the problem object after action a
ProblemMove(p, a) ==
    IF input.kind = "puzzle" THEN move(p, a, input.numR, input.numC)
    ELSE [p EXCEPT !.cur = a]

\* the actions of path applied one at a time to problem object p: whether
\* each was accepted in the state it was applied in, and the object reached
RECURSIVE Replay(_, _)
Replay(p, path) ==
    IF path = <<>> THEN [legal |-> TRUE, end |-> p]
    ELSE IF ~ProblemCanMove(p, Head(path)) THEN [legal |-> FALSE, end |-> p]
    ELSE Replay(ProblemMove(p, Head(path)), Tail(path))

\* the problem object set to the start state
AtStart == ProblemSetState(problem, input.start)

\* what the other search functions return on the problem in its start state
BreadthResult == Run("bfs", ListStart(AtStart)).result

DepthResult == Run("dfs", ListStart(AtStart)).result

LimitedResult(d) == Run("dls", limitedStart(AtStart, d, TRUE, 0, 0, NewLog)).result

DeepeningResult(d) == idsRun(idsStart(AtStart, d), AtStart, 0, 0, IdsLog).result

\* the getSuccessors calls the top-level call has made so far
Expansions == hist.before + Len(hist.expanded)

\* no element occurs twice in sequence q
NoRepeat(q) == \A i, j \in 1 .. Len(q) : i # j => q[i] # q[j]

\* the elements of sequence q
Range(q) == {q[i] : i \in 1 .. Len(q)}

-----------------------------------------------------------------------------
(* Properties *)

\* C1: with all step costs 1 and a goal reachable, breadthSearch returns a
\* path with as few actions as any path from the start to a goal has.
C1_BreadthFewestActions ==
    (Stopped("bfs") /\ UnitCosts /\ GoalDistance < Infinity)
        => /\ ret.cost < Infinity
           /\ Len(ret.path) = GoalDistance

\* breadthSearch has returned a path of two or more actions where a longer
\* route leads to a goal too (depthSearch returns it)
C1_Witness ==
    /\ Stopped("bfs") /\ UnitCosts
    /\ GoalDistance >= 2 /\ Len(ret.path) = GoalDistance
    /\ DepthResult.cost < Infinity
    /\ Len(DepthResult.path) > GoalDistance

\* C2: with unit step costs and a shallowest goal at depth d, 1 <= d <=
\* maxDepth, iterativeDeepening returns a path as long as breadthSearch's.
C2_DeepeningMatchesBreadth ==
    (Stopped("ids") /\ UnitCosts
       /\ GoalDistance >= 1 /\ GoalDistance <= ret.maxDepth)
        => Len(ret.path) = Len(BreadthResult.path)

\* C3: with an admissible heuristic, the cost aStarSearch returns is the
\* minimum path cost from the start to a goal, and no more than the cost
\* any other search function returns on the same problem.
C3_AStarCheapest ==
    (Stopped("astar") /\ Admissible(ret.heuristic))
        => /\ ret.cost = MinCost
           /\ ret.cost <= BreadthResult.cost
           /\ ret.cost <= DepthResult.cost
           /\ \A d \in DepthArgs : ret.cost <= LimitedResult(d).cost
           /\ \A d \in DepthArgs : ret.cost <= DeepeningResult(d).cost

\* the start state of the 2x2 puzzle one move of the blank away from the
\* solved board
OneMove(dir) == getState(move(Constructed(2, 2), dir, 2, 2))

\* a 2x2 puzzle whose start state is one legal move away from solved
OneMoveFromSolved ==
    /\ input.kind = "puzzle" /\ input.numR = 2 /\ input.numC = 2
    /\ \E i \in 1 .. Len(legalMoves(Constructed(2, 2), 2, 2)) :
          input.start = OneMove(legalMoves(Constructed(2, 2), 2, 2)[i])

\* breadthSearch, depthSearch, iterativeDeepening with maxDepth 1 or
\* aStarSearch with the zero heuristic has returned
OneMoveCall ==
    \/ Stopped("bfs")
    \/ Stopped("dfs")
    \/ Stopped("ids") /\ ret.maxDepth = 1
    \/ Stopped("astar") /\ ret.heuristic = NoHeuristic

\* the result is a path of exactly one action, total cost 1, after at least
\* one expansion
OneActionResult ==
    Len(ret.path) = 1 /\ ret.cost = 1 /\ ret.expanded >= 1

\* C4 as stated: on a 2x2 puzzle one legal move from solved, breadthSearch,
\* depthSearch, iterativeDeepening(maxDepth = 1) and aStarSearch with the
\* zero heuristic each return a one-action path of cost 1 with at least one
\* expansion.
C4_OneMoveAllStrategies ==
    (OneMoveFromSolved /\ OneMoveCall) => OneActionResult

\* C4: on a 2x2 puzzle one legal move from solved, breadthSearch,
\* iterativeDeepening(maxDepth = 1) and aStarSearch with the zero heuristic
\* each return a one-action path of cost 1 with at least one expansion;
\* depthSearch does so from the start with the blank moved Right, and from
\* the start with the blank moved Down it returns an 11-action path of cost
\* 11 (with at least one expansion).
C4_OneMoveDepthDetour ==
    (OneMoveFromSolved /\ OneMoveCall)
        => IF Stopped("dfs") /\ input.start = OneMove(Down)
           THEN Len(ret.path) = 11 /\ ret.cost = 11 /\ ret.expanded >= 1
           ELSE OneActionResult

\* depthSearch has returned from the start with the blank moved Down
C4_Witness ==
    /\ OneMoveFromSolved /\ Stopped("dfs") /\ input.start = OneMove(Down)
    /\ Len(ret.path) = 11
    /\ Replay(AtStart, ret.path).legal
    /\ ProblemIsSolved(Replay(AtStart, ret.path).end)

\* C5: when the start state is already solved, every strategy
\* (iterativeDeepening with maxDepth >= 1) returns the empty path, cost 0
\* and 0 expansions.
C5_SolvedStartEmptyPath ==
    (Done /\ IsGoal(input.start) /\ (ret.strategy = "ids" => ret.maxDepth >= 1))
        => ret.path = <<>> /\ ret.cost = 0 /\ ret.expanded = 0

\* the bound within which the returned call looks for a goal
Bound == IF ret.strategy \in {"dls", "ids"} THEN ret.maxDepth ELSE Infinity

\* C6: when no goal is reachable (for the depth-bounded strategies: within
\* the bound), the strategy returns the empty path, infinite cost and the
\* number of expansions it performed.
C6_NoSolutionResult ==
    (Done /\ GoalDistanceWithin(Bound) = Infinity)
        => /\ ret.path = <<>>
           /\ ret.cost = Infinity
           /\ ret.expanded = Expansions

\* iterativeDeepening has given up on a problem whose goal lies deeper than
\* its bound, after several depth-limited searches
C6_Witness ==
    /\ Stopped("ids") /\ GoalDistanceWithin(Bound) = Infinity
    /\ GoalDistance < Infinity
    /\ ret.cost = Infinity
    /\ hist.iters >= 2 /\ ret.expanded > hist.iters

\* C7: a non-empty path a strategy returns replays from the start state:
\* every action is legal in the state it is applied in and the last state
\* satisfies the goal test.
C7_PathReplays ==
    (Done /\ ret.path # <<>>)
        => /\ Replay(AtStart, ret.path).legal
           /\ ProblemIsSolved(Replay(AtStart, ret.path).end)

\* a returned path of three or more actions has been replayed to a goal
C7_Witness ==
    /\ Done /\ Len(ret.path) >= 3
    /\ Replay(AtStart, ret.path).legal
    /\ ProblemIsSolved(Replay(AtStart, ret.path).end)
    /\ ~IsGoal(input.start)

\* a pass of a while loop that does not return either takes a node off the
\* fringe without putting one on, or expands one state that was not visited
LoopProgress ==
    (pc \in LoopPcs /\ pc' = pc)
        => \/ Len(fringe') < Len(fringe)
           \/ \E s \in visited' \ visited :
                 /\ visited' = visited \cup {s}
                 /\ hist'.expanded = Append(hist.expanded, s)

\* C8: every strategy call terminates: each pass of its loop shrinks the
\* fringe or expands a not-yet-visited state (and no pass leaves the frame as
\* it was), iterativeDeepening runs at most maxDepth depth-limited searches,
\* and a call once made returns.
C8_Terminates ==
    /\ [][LoopProgress]_vars
    /\ [](pc \in LoopPcs => Loop(pc, Frame) # Frame)
    /\ [](pc \in {"ids", "ids_dls"} => hist.iters <= ids.maxDepth)
    /\ (pc # "idle") ~> (pc = "idle")

\* iterativeDeepening has returned after maxDepth depth-limited searches on
\* a problem with a cycle
C8_Witness ==
    /\ Stopped("ids") /\ ret.maxDepth = MaxDepthArg
    /\ hist.iters = ret.maxDepth
    /\ input.kind = "graph"
    /\ \E n \in Nodes : n # 0 /\ \E i \in 1 .. Len(input.succ[n]) : input.succ[n][i] = 0

\* C9: when a goal lies within maxDepth actions of a start state that is
\* not solved, iterativeDeepening returns a non-empty path to a goal.
C9_DeepeningComplete ==
    (Stopped("ids") /\ ~IsGoal(input.start)
       /\ GoalDistanceWithin(ret.maxDepth) < Infinity)
        => /\ ret.path # <<>>
           /\ ret.cost < Infinity

\* C10: within one call (for iterativeDeepening, one depth-limited search)
\* no state key is expanded twice, also when the fringe holds several nodes
\* with that key, and visited only grows: it is the set of the keys
\* expanded so far, each counted once in numExpanded.
C10_ExpandedOnce ==
    /\ [](NoRepeat(hist.expanded))
    /\ [](pc \in LoopPcs => visited = Range(hist.expanded))
    /\ [](pc \in LoopPcs => numExpanded = Len(hist.expanded))
    /\ [][(pc \in LoopPcs /\ pc' = pc) => visited \subseteq visited']_vars

\* the fringe holds a node whose key has been expanded already
C10_Witness ==
    /\ pc \in {"bfs", "dfs", "dls", "ids_dls"}
    /\ \E i \in 1 .. Len(fringe) :
          fringe[i].state \in visited /\ ~fringe[i].goal

\* C11: when a top-level call returns, totalStates (getTotalStates()) is
\* the expansion count the call returned, whatever the counters held
\* before; for iterativeDeepening that is the number of expansions of all
\* its depth-limited searches together.
C11_TotalStatesIsReturnedCount ==
    Done => /\ totalStates = ret.expanded
            /\ totalStates = Expansions

\* iterativeDeepening has returned after several depth-limited searches that
\* expanded states, the last of them fewer than all together
C11_Witness ==
    /\ Stopped("ids") /\ hist.iters >= 3
    /\ hist.before > 0 /\ Len(hist.expanded) > 0
    /\ totalStates = hist.before + Len(hist.expanded)

\* C12: when a top-level call returns, maxMemoryUse (getMaxMemoryUse()) is
\* the largest number of nodes the fringe held at any moment of the call,
\* the seeded start node counted (for iterativeDeepening, the largest over
\* all its depth-limited searches).
C12_MaxMemoryUseIsPeak ==
    Done => maxMemoryUse = hist.peak

\* a node popped in a depth-limited search is expanded on this step
LimitedExpansion ==
    /\ pc \in {"dls", "ids_dls"} /\ pc' = pc
    /\ Len(hist'.expanded) > Len(hist.expanded)

\* C13: depthLimitedSearch never expands a node whose depth tag is maxDepth
\* or more, every node's depth tag is the length of its path, and a
\* non-empty path it returns has at most maxDepth actions.
C13_DepthLimitRespected ==
    /\ [][LimitedExpansion => fringe[depthIndex(fringe)].depth < dls]_vars
    /\ [](pc \in {"dls", "ids_dls"} =>
            \A i \in 1 .. Len(fringe) :
               /\ fringe[i].depth = Len(fringe[i].path)
               /\ fringe[i].depth <= dls)
    /\ [](Stopped("dls") => Len(ret.path) <= ret.maxDepth)

\* a top-level depthLimitedSearch holds a node at its limit that is not a
\* goal, on top of the fringe: the next pass prunes it
C13_Witness ==
    /\ pc = "dls" /\ dls >= 2 /\ fringe # <<>>
    /\ fringe[depthIndex(fringe)].depth = dls
    /\ ~fringe[depthIndex(fringe)].goal
    /\ fringe[depthIndex(fringe)].state \notin visited

\* the number of positions of the list q that hold e
Occurrences(q, e) == Cardinality({i \in 1 .. Len(q) : q[i] = e})

\* the entry the call of pop that just returned handed out
PoppedEntry == [priority |-> ret'.priority, item |-> ret'.item]

\* C14: in every sequence of push and pop on a PriorityQueue, a pop on a
\* non-empty queue returns without error an item and its priority, that
\* priority is the smallest in the queue, and exactly that one entry leaves
\* the queue; a pop on the empty queue fails with an error and returns
\* nothing; getSize() is the number of pushes minus the number of pops that
\* returned, and isEmpty() holds exactly when getSize() is 0.
C14_QueueDiscipline ==
    /\ [][PQPop =>
            IF isEmpty(fringe)
            THEN ret'.error # "none" /\ fringe' = fringe
            ELSE /\ ret'.error = "none"
                 /\ \A i \in 1 .. Len(fringe) :
                      ret'.priority <= fringe[i].priority
                 /\ Occurrences(fringe, PoppedEntry) > 0
                 /\ getSize(fringe') = getSize(fringe) - 1
                 /\ \A i \in 1 .. Len(fringe) :
                      Occurrences(fringe', fringe[i])
                        = Occurrences(fringe, fringe[i])
                          - (IF fringe[i] = PoppedEntry THEN 1 ELSE 0)]_vars
    /\ [](pc \in {"queue", "raised"} =>
            /\ getSize(fringe) = hist.pushes - hist.pops
            /\ isEmpty(fringe) <=> (getSize(fringe) = 0))

\* C15: push and pop never fail on entries with equal priorities whose
\* payloads have no order: no call on a PriorityQueue raises TypeError.
C15_TiesNeverRaise ==
    pc \in {"queue", "raised"} => ret.error # "TypeError"

\* the call that returns in this step returns the path and cost of node n
Carries(n) == ret'.path = n.path /\ ret'.cost = n.cost

\* entry i of the priority queue has the smallest priority in it
Lowest(i) == \A j \in 1 .. Len(fringe) : fringe[i].priority <= fringe[j].priority

\* C16: the goal flag is tested on the node a loop pass removes from the
\* fringe and on no other.  A pass of breadthSearch leaves the loop exactly
\* when the oldest node of the fringe is a goal node, a pass of depthSearch
\* or depthLimitedSearch exactly when the newest one is, and a pass of
\* aStarSearch only on a goal node no entry has a lower priority than (and
\* whenever every entry of lowest priority is a goal node); the call that
\* returns then returns the path and cost of that node, whatever goal nodes
\* are behind it in the fringe.
C16_GoalTestedAtRemoval ==
    [][(pc \in LoopPcs /\ fringe # <<>>) =>
        (/\ pc = "bfs" =>
              /\ pc' # pc <=> fringe[1].goal
              /\ pc' # pc => Carries(fringe[1])
         /\ pc \in {"dfs", "dls", "ids_dls"} =>
              /\ pc' # pc <=> Last(fringe).goal
              /\ pc' = "idle" => Carries(Last(fringe))
         /\ pc = "astar" =>
              /\ pc' # pc =>
                   \E i \in 1 .. Len(fringe) :
                      /\ Lowest(i)
                      /\ fringe[i].item.goal
                      /\ Carries(fringe[i].item)
              /\ (\A i \in 1 .. Len(fringe) : Lowest(i) => fringe[i].item.goal)
                   => pc' # pc)]_vars

\* depthSearch is about to remove a non-goal node while a goal node pushed
\* earlier waits in the fringe
C16_Witness ==
    /\ pc = "dfs"
    /\ Len(fringe) >= 2
    /\ ~Last(fringe).goal
    /\ \E i \in 1 .. Len(fringe) - 1 : fringe[i].goal

\* the expansion counts of the depth-limited searches with limits 1 .. k on
\* the problem in its start state, added up
RECURSIVE LimitedExpandedUpTo(_)
LimitedExpandedUpTo(k) ==
    IF k = 0 THEN 0 ELSE LimitedResult(k).expanded + LimitedExpandedUpTo(k - 1)

\* C17: iterativeDeepening keeps the state the problem is in when it is
\* called; its k-th depth-limited search has limit k <= maxDepth and starts,
\* after problem.setState of the kept state, from that state alone; it
\* returns after the first search that gives a non-empty path, with that
\* path and cost, or after the search with limit maxDepth with the failure
\* result; the count it returns is the sum of the counts of all the
\* searches it ran, failed ones included.
C17_DeepeningSchedule ==
    /\ [][(pc = "idle" /\ pc' = "ids") =>
            ids'.state = ProblemGetState(problem)]_vars
    /\ [][(pc = "ids" /\ pc' = "ids_dls") =>
            (/\ dls' = hist.iters + 1
             /\ hist'.iters = hist.iters + 1
             /\ dls' <= ids.maxDepth
             /\ ProblemGetState(problem') = ids.state
             /\ Len(fringe') = 1
             /\ fringe'[1].state = ids.state
             /\ fringe'[1].path = <<>>
             /\ visited' = {})]_vars
    /\ [](Stopped("ids") =>
            /\ hist.iters <= ret.maxDepth
            /\ \A d \in 1 .. hist.iters - 1 : LimitedResult(d).path = <<>>
            /\ IF ret.path # <<>>
               THEN /\ LimitedResult(hist.iters).path = ret.path
                    /\ LimitedResult(hist.iters).cost = ret.cost
               ELSE /\ hist.iters = ret.maxDepth
                    /\ ret.cost = Infinity
            /\ ret.expanded = LimitedExpandedUpTo(hist.iters))

\* iterativeDeepening has returned a path from its third or a later search,
\* before reaching maxDepth, and counts the expansions of the failed ones
C17_Witness ==
    /\ Stopped("ids")
    /\ ret.path # <<>>
    /\ hist.iters >= 3
    /\ hist.iters < ret.maxDepth
    /\ ret.expanded > Len(hist.expanded)

\* C18: breadthSearch, depthSearch and aStarSearch are complete.  When one of
\* them has returned the no-solution result (empty path, infinite cost), no
\* goal state is reachable from the start state; when a goal state is
\* reachable, it has returned a finite cost and a path that replays from the
\* start state, every action legal, to a state passing the goal test.
C18_Complete ==
    (Stopped("bfs") \/ Stopped("dfs") \/ Stopped("astar"))
        => /\ (ret.path = <<>> /\ ret.cost = Infinity) => GoalDistance = Infinity
           /\ GoalDistance < Infinity =>
                /\ ret.cost < Infinity
                /\ Len(ret.path) >= GoalDistance
                /\ Replay(AtStart, ret.path).legal
                /\ ProblemIsSolved(Replay(AtStart, ret.path).end)

\* depthSearch has returned a path to a goal that is longer than the
\* shortest one
C18_Witness ==
    /\ Stopped("dfs")
    /\ GoalDistance >= 2 /\ GoalDistance < Infinity
    /\ Len(ret.path) > GoalDistance
    /\ ProblemIsSolved(Replay(AtStart, ret.path).end)

\* heuristic h is consistent: h(s) <= stepcost(s, t) + h(t) for every
\* transition s -> t, and h is 0 on the goal states
Consistent(h) ==
    \/ h.kind = "zero"
    \/ /\ input.kind = "graph"
       /\ \A n \in Nodes :
            /\ IsGoal(n) => HeuristicEval(h, n) = 0
            /\ \A i \in 1 .. Len(Successors(n)) :
                 HeuristicEval(h, n)
                   <= Successors(n)[i].cost + HeuristicEval(h, Successors(n)[i].state)

\* C19: with a consistent heuristic (0 everywhere included; all step costs
\* are positive) the cost aStarSearch returns is the cost of a cheapest path
\* from the start state to a goal, and the path it returns replays to a goal.
C19_ConsistentAStarCheapest ==
    (Stopped("astar") /\ Consistent(ret.heuristic))
        => /\ ret.cost = MinCost
           /\ ret.cost < Infinity =>
                /\ Replay(AtStart, ret.path).legal
                /\ ProblemIsSolved(Replay(AtStart, ret.path).end)

\* aStarSearch with a consistent heuristic that is not 0 everywhere has
\* returned a cheapest path that breadthSearch's path is dearer than
C19_Witness ==
    /\ Stopped("astar")
    /\ ret.heuristic.kind = "table"
    /\ \E n \in Nodes : HeuristicEval(ret.heuristic, n) > 0
    /\ Consistent(ret.heuristic)
    /\ Len(ret.path) >= 2
    /\ ret.cost = MinCost
    /\ ret.cost < BreadthResult.cost

\* the step cost of action a taken in the state of problem object p
StepCost(p, a) ==
    IF input.kind = "puzzle" THEN MoveCost ELSE EdgeCost(p.cur, a)

\* the sum of the step costs of the actions of path, taken one after the
\* other from the state of problem object p
RECURSIVE PathCost(_, _)
PathCost(p, path) ==
    IF path = <<>> THEN 0
    ELSE StepCost(p, Head(path)) + PathCost(ProblemMove(p, Head(path)), Tail(path))

\* the nodes in the fringe of the running search function
FringeNodes ==
    IF pc = "astar" THEN [i \in 1 .. Len(fringe) |-> fringe[i].item] ELSE fringe

\* node n is what its path says: the path is legal from the start state,
\* leads to the node's state key and costs the node's cost
NodeFollowsPath(n) ==
    /\ Replay(AtStart, n.path).legal
    /\ ProblemGetState(Replay(AtStart, n.path).end) = n.state
    /\ PathCost(AtStart, n.path) = n.cost

\* C20: in every strategy every node in the fringe has for cost the sum of
\* the step costs along its path from the start state and for state key the
\* state that path leads to; a solution is returned with the sum of the step
\* costs of its actions, which is the number of actions when every step
\* costs 1.
C20_CostIsPathCost ==
    /\ pc \in LoopPcs =>
         \A i \in 1 .. Len(FringeNodes) : NodeFollowsPath(FringeNodes[i])
    /\ (Done /\ ret.cost < Infinity) =>
         /\ ret.cost = PathCost(AtStart, ret.path)
         /\ UnitCosts => ret.cost = Len(ret.path)

\* aStarSearch holds a node two or more actions from the start whose cost
\* is more than the number of its actions
C20_Witness ==
    /\ pc = "astar"
    /\ \E i \in 1 .. Len(fringe) :
         /\ Len(fringe[i].item.path) >= 2
         /\ fringe[i].item.cost > Len(fringe[i].item.path)
         /\ NodeFollowsPath(fringe[i].item)

\* the problem object as the caller made it, before any call
EntryProblem ==
    IF input.kind = "puzzle"
    THEN setState(Constructed(input.numR, input.numC), input.start,
                  input.numR, input.numC)
    ELSE [cur |-> input.start]

\* C21: a call of a strategy leaves the problem in the state it found it in.
\* Whenever no call is running (before the first call, and after any call
\* has returned a solution or the no-solution result, which is where the
\* next call starts), problem.getState() is the state the caller set and
\* problem.isSolved() answers as it did then.
C21_ProblemStateRestored ==
    pc = "idle" =>
        /\ ProblemGetState(problem) = ProblemGetState(EntryProblem)
        /\ ProblemIsSolved(problem) = ProblemIsSolved(EntryProblem)

\* a call on a sliding puzzle has returned after handing two or more states
\* other than the start state to getSuccessors, and the puzzle is in its
\* start state
C21_Witness ==
    /\ Done
    /\ input.kind = "puzzle"
    /\ Cardinality({i \in 1 .. Len(hist.expanded) :
                      hist.expanded[i] # input.start}) >= 2
    /\ ProblemGetState(problem) = input.start

\* the cells of a board whose tile is not the cell's index
Misplaced(board, numR, numC) ==
    {c \in (1 .. numR) \X (1 .. numC) :
        board[c[1]][c[2]] # (c[1] - 1) * numC + (c[2] - 1)}

\* the state string of the solved arrangement of the puzzle
SolvedState == BoardStr(SolvedBoard(input.numR, input.numC))

\* C22: after any sequence of setState, move and getSuccessors calls (and
\* constructions and getScrambledStates calls) on a SlidingPuzzle, the
\* misplaced count the object keeps is the number of cells whose tile is
\* not the cell's index, its blank position is the cell that holds the
\* blank, isSolved() is true exactly on the solved arrangement, and each
\* successor getSuccessors has returned carries a true goal flag exactly
\* when its state is the solved arrangement.
C22_MisplacedCountExact ==
    pc = "puzzle" =>
        /\ problem.numMisplaced
             = Cardinality(Misplaced(problem.board, input.numR, input.numC))
        /\ problem.board[problem.pos[1] + 1][problem.pos[2] + 1] = Blank
        /\ isSolved(problem) <=> (getState(problem) = SolvedState)
        /\ (ret.op = "getSuccessors" /\ ret.error = "none") =>
              \A i \in 1 .. Len(ret.successors) :
                 ret.successors[i].goal <=> (ret.successors[i].state = SolvedState)

\* a move has just put the last misplaced tiles of a 2x2 puzzle in place
C22_Witness ==
    /\ pc = "puzzle"
    /\ input.numR = 2 /\ input.numC = 2
    /\ ret.op = "move" /\ ret.error = "none"
    /\ isSolved(problem)
    /\ getState(problem) = SolvedState

\* direction dir is in the list legalMoves() returns for the puzzle
InLegalMoves(dir) ==
    \E i \in 1 .. Len(legalMoves(problem, input.numR, input.numC)) :
       legalMoves(problem, input.numR, input.numC)[i] = dir

\* C23: move(dir) with a direction that legalMoves() does not list for the
\* current state raises an error and leaves board, blank position and
\* misplaced count as they were; with a direction legalMoves() lists it
\* returns cost 1, the blank is on the adjacent cell in that direction, the
\* tile that was there is on the cell the blank left, and no other cell has
\* changed.
C23_MoveLegalOrRefused ==
    [][\A dir \in MoveArgs :
          (pc = "puzzle" /\ ret'.op = "move" /\ ret'.arg = dir) =>
             IF InLegalMoves(dir)
             THEN LET old == <<problem.pos[1] + 1, problem.pos[2] + 1>>
                      new == <<old[1] + dir[1], old[2] + dir[2]>>
                  IN  /\ ret'.error = "none"
                      /\ ret'.cost = 1
                      /\ problem'.pos = <<new[1] - 1, new[2] - 1>>
                      /\ problem'.board[new[1]][new[2]] = Blank
                      /\ problem'.board[old[1]][old[2]] = problem.board[new[1]][new[2]]
                      /\ \A c \in (1 .. input.numR) \X (1 .. input.numC) :
                            (c # old /\ c # new) =>
                               problem'.board[c[1]][c[2]] = problem.board[c[1]][c[2]]
             ELSE /\ ret'.error # "none"
                  /\ problem' = problem]_vars

\* move has refused one of the four directions, which would take the blank
\* off the board of a puzzle that is not solved
C23_Witness ==
    /\ pc = "puzzle"
    /\ ret.op = "move" /\ ret.error = "ValueError"
    /\ ret.arg \in {Up, Down, Left, Right}
    /\ ~InLegalMoves(ret.arg)
    /\ ~isSolved(problem)

\* the fewest moves that solve the puzzle from state string state
\* (Infinity: none does)
SolveDistance(state) == Distance({state}, {state}, 0, Infinity)

\* the states of the puzzle that take exactly n moves to solve
AtDistance(n) ==
    {state \in {BoardStr(b) : b \in Boards(input.numR, input.numC)} :
        SolveDistance(state) = n}

-----------------------------------------------------------------------------
\* C25: the driver's dls(p, initState, limit) sets the puzzle to initState,
\* runs depthLimitedSearch on it with depth bound limit and returns that
\* search's path, cost and numExpanded, and the depth-limited block of a lab
\* run that got its initState prints a result of that search (a solution or
\* "No solution found!"), not the line of its except clause.
C25_DriverDlsReturnsSearch ==
    /\ (ret.fn = "dls") =>
          /\ ret.error = "none"
          /\ getState(problem) = ret.arg[1]
          /\ Result(ret.path, ret.cost, ret.expanded) = LimitedResult(ret.arg[2])
    /\ (ret.fn = "lab" /\ Len(ret.reports) >= 3) =>
          ret.reports[3] # TookTooLong

====
